---- MODULE Spec2Model ----
(***************************************************************************)
(* Verification model of the tutorial code of adam-lafontaine/CMS.         *)
(*                                                                         *)
(* The repository is a set of independent programs, so the module holds    *)
(* one specification per component over one set of variables:              *)
(*   SpecBuffer  the bump allocators (ByteBuffer, MemoryBuffer<T>,         *)
(*               FloatBuffer)                                              *)
(*   SpecView    GrayImage / GrayView and its forward iterator             *)
(*   SpecSocket  the cross platform socket wrappers                        *)
(*   SpecExchange  the server and client programs exchanging messages      *)
(*   SpecApp     the SDL2 application's main loop                          *)
(*   SpecKernel  the CUDA kernel launch                                    *)
(*   SpecVector  the three vector transforms                               *)
(*   SpecPar     the functions run in parallel                             *)
(*   SpecMake    the final makefile                                        *)
(*   SpecGradient  the image gradients                                     *)
(*   SpecEdges   edges() on chess-board images                             *)
(*   SpecVideo   the video application's main loop                         *)
(*   SpecServer  the server socket with its calls made in order            *)
(*   SpecDemo    the three vector functions under execute_par              *)
(*   SpecChunks  the vector processed in four chunks                       *)
(* A specification leaves the variables of the other components alone.     *)
(***************************************************************************)
EXTENDS Integers, Sequences, FiniteSets, TLC

VARIABLES
    \* ---- bump allocators
    kind,        \* which buffer type the program under test uses
    buffer,      \* the buffer object: [data, capacity, size]
    alive,       \* MemoryBuffer only: the object is constructed and not destructed
    live,        \* heap: blocks returned by malloc and not yet freed
    frees,       \* heap: block -> number of std::free calls made on it
    next_block,  \* heap: the next block malloc hands out
    op,          \* the last operation called on the buffer
    arg,         \* its argument
    ret,         \* its result: an address [blk, off], or a boolean
    prev_op,     \* the operation called before it
    since,       \* the last operation other than a push: "create", "reset" or "destroy"
    destroyed,   \* the buffer was destroyed or freed and not created since
    first_push,  \* the address the first successful push after the last create returned
    regions,     \* the regions handed out by the pushes since the last other operation
    \* ---- image views
    image,       \* GrayImage: [width, height, data]
    view,        \* GrayView: [image_width, image_height, range]
    vstage,      \* position of the demonstration program
    visited,     \* positions dereferenced by the last walk begin() .. end()
    before,      \* image.data before the last invert_gray
    new_image,   \* the image created from the view: [width, height, data, allocated]
    written,     \* number of pixels std::copy wrote through new_image.begin()
    fault,       \* the last operation accessed memory outside a pixel buffer
    \* ---- sockets
    server,      \* ServerSocketInfo
    client,      \* ClientSocketInfo
    sock_op,     \* the last socket function called
    os_ok,       \* whether the OS call it made succeeded
    sock_ret,    \* what it returned
    \* ---- the server and client programs
    pc,             \* program -> the statement of run_server / run_client it is at
    fds,            \* program -> the descriptors it holds open
    wsa,            \* program -> socket library: "none", "started" or "cleaned"
    backlog,        \* connections made to the listening socket and not yet accepted
    inbox,          \* program -> the messages sent to it and not yet received
    message_buffer, \* program -> char message_buffer[50]
    os_failed,      \* some OS call of either program has failed
    \* ---- the SDL2 application
    app_pc,      \* the statement of main it is at
    g_running,   \* bool g_running
    event,       \* the event the last SDL_PollEvent delivered, or NoEvent
    drawn,       \* what handle_keyboard_event last drew into g_image
    cleanups,    \* number of calls of cleanup()
    exit_code,   \* what main returned
    succeeded,   \* the calls of main that have returned true
    image_data,  \* g_image.data: "nullptr" or "allocated"
    image_frees, \* number of calls of free(image.data)
    \* ---- the CUDA kernel
    kstage,      \* "host", "launched" or "synchronized"
    n_elements,  \* the n_elements argument of launch_kernel
    threads,     \* the thread ids of the grid that have not run yet
    result,      \* the result array
    writes,      \* index -> number of writes to result[index]
    stray,       \* a thread accessed an index >= n_elements
    \* ---- the vector transforms
    variant,     \* "for", "stl" or "par"
    src_vec,     \* intVec src
    src_in,      \* src as it was passed in
    dst_vec,     \* intVec dst
    idx,         \* the loop variable / input iterator position
    todo,        \* par: the elements no task has processed yet
    vstate,      \* "running" or "returned"
    \* ---- the parallel messages
    par_state,   \* "called", "running" or "returned"
    calls,       \* function -> number of times execute called it
    progress,    \* function -> number of printf statements it has executed
    printed,     \* <<function, message>> -> number of times it was printed
    last_msg,    \* the message printed last
    \* ---- the makefile
    mtime,       \* file -> modification time, 0 for a file that does not exist
    clock,       \* the time of the last file system change
    cmd,         \* the last command: "run", "clean", "edit"
    prev_cmd,    \* the command before it
    rebuilt,     \* the targets whose recipe the last make ran
    existed,     \* the files that existed before the last command
    \* ---- the image gradients
    pixels,      \* the 3 x 3 neighbourhood of the source image, row major
    gop,         \* the function that processed it
    grad,        \* the gradient it computed, times 4
    asserted,    \* both assertions on grad held
    dst_pixel,   \* the u8 written to the destination image
    \* ---- edges of an image
    estage,      \* "called", "zeroed" or "returned"
    src_image,   \* Image src: [width, height, data], data row by row
    src_passed,  \* src as it was passed in
    dst_image,   \* Image dst
    edge_threshold, \* u8 threshold
    evaluated,   \* the positions gradient_at_xy was called with
    outside,     \* gradient_at_xy read outside the pixels of src
    \* ---- the video application
    video_pc,     \* the statement of main's loop it is at
    is_running,   \* state.is_running
    video_event,  \* the event the last SDL_PollEvent delivered, or NoEvent
    update_frame, \* state.update_frame: the call the function object makes
    screen_image, \* state.screen_image: the colour of all its pixels
    printed_line, \* the last line written to stdout
    rendered,     \* what the last render_image copied to the window
    \* ---- the execute_par demonstration
    demo_pc,      \* "execute_par", "for_each" or "returned"
    fstate,       \* function of the list -> "waiting", "running" or "done"
    wrote,        \* function -> the elements of its destination it has written
    runs,         \* function -> number of times execute_par has called it
    \* ---- the vector processed in four chunks
    chunk_pc,     \* "called", "execute_par", "returned" or "aborted"
    chunk_src,    \* intVec src
    chunk_dst,    \* intVec dst
    chunk_state,  \* chunk -> "waiting", "running" or "done"
    chunk_i,      \* chunk -> the loop variable i of its process_vector_elements
    chunk_writes, \* index -> the chunks that have written dst[index]
    chunk_asserts \* every assertion evaluated so far held

buf_vars  == <<kind, buffer, alive, live, frees, next_block, op, prev_op, arg, ret,
               since, destroyed, first_push, regions>>
view_vars == <<image, view, vstage, visited, before, new_image, written, fault>>
sock_vars == <<server, client, sock_op, os_ok, sock_ret>>
exch_vars == <<pc, fds, wsa, backlog, inbox, message_buffer, os_failed>>
app_vars  == <<app_pc, g_running, event, drawn, cleanups, exit_code,
               succeeded, image_data, image_frees>>
kern_vars == <<kstage, n_elements, threads, result, writes, stray>>
vec_vars  == <<variant, src_vec, src_in, dst_vec, idx, todo, vstate>>
par_vars  == <<par_state, calls, progress, printed, last_msg>>
make_vars == <<mtime, clock, cmd, prev_cmd, rebuilt, existed>>
grad_vars == <<pixels, gop, grad, asserted, dst_pixel>>
edge_vars == <<estage, src_image, src_passed, dst_image, edge_threshold,
               evaluated, outside>>
\* the components up to the image gradients, and those after them
first_vars == <<buf_vars, view_vars, sock_vars, exch_vars, app_vars, kern_vars,
                vec_vars, par_vars, make_vars, grad_vars>>
video_vars == <<video_pc, is_running, video_event, update_frame, screen_image,
                printed_line, rendered>>
demo_vars == <<demo_pc, fstate, wrote, runs>>
chunk_vars == <<chunk_pc, chunk_src, chunk_dst, chunk_state, chunk_i, chunk_writes,
                chunk_asserts>>
rest_vars == <<edge_vars, video_vars, demo_vars, chunk_vars>>
vars      == <<first_vars, rest_vars>>

\* what a component leaves alone: the variables of every other component.  The
\* socket wrappers are called by the server and client programs too, so their
\* frame leaves those programs' variables to the caller.
beside_buf  == <<view_vars, sock_vars, exch_vars, app_vars, kern_vars, vec_vars,
                 par_vars, make_vars, grad_vars, rest_vars>>
beside_view == <<buf_vars, sock_vars, exch_vars, app_vars, kern_vars, vec_vars,
                 par_vars, make_vars, grad_vars, rest_vars>>
beside_sock == <<buf_vars, view_vars, app_vars, kern_vars, vec_vars, par_vars,
                 make_vars, grad_vars, rest_vars>>
beside_app  == <<buf_vars, view_vars, sock_vars, exch_vars, kern_vars, vec_vars,
                 par_vars, make_vars, grad_vars, rest_vars>>
beside_kern == <<buf_vars, view_vars, sock_vars, exch_vars, app_vars, vec_vars,
                 par_vars, make_vars, grad_vars, rest_vars>>
beside_vec  == <<buf_vars, view_vars, sock_vars, exch_vars, app_vars, kern_vars,
                 par_vars, make_vars, grad_vars, rest_vars>>
beside_par  == <<buf_vars, view_vars, sock_vars, exch_vars, app_vars, kern_vars,
                 vec_vars, make_vars, grad_vars, rest_vars>>
beside_make == <<buf_vars, view_vars, sock_vars, exch_vars, app_vars, kern_vars,
                 vec_vars, par_vars, grad_vars, rest_vars>>
beside_grad == <<buf_vars, view_vars, sock_vars, exch_vars, app_vars, kern_vars,
                 vec_vars, par_vars, make_vars, rest_vars>>
beside_edge == <<first_vars, video_vars, demo_vars, chunk_vars>>
beside_video == <<first_vars, edge_vars, demo_vars, chunk_vars>>
beside_demo == <<first_vars, edge_vars, video_vars, chunk_vars>>
beside_chunk == <<first_vars, edge_vars, video_vars, demo_vars>>

(***************************************************************************)
(* Bounds of the model.                                                    *)
(***************************************************************************)
MaxCap    == 4   \* largest capacity / request size tried
MaxAllocs == 2   \* malloc calls followed in one behaviour
MaxPushes == 4   \* successive pushes recorded in regions
MaxDim    == 2   \* largest image width and height
MaxSocket == 2   \* largest descriptor the OS hands out

(***************************************************************************)
(* BUMP ALLOCATORS                                                         *)
(***************************************************************************)
NULL == 0

Blocks == 1..MaxAllocs

\* An address: offset off (in elements) into block blk; blk = NULL is nullptr.
Addr(blk, off) == [blk |-> blk, off |-> off]

nullptr == Addr(NULL, 0)

\* class ByteBuffer / FloatBuffer / MemoryBuffer<T>: the default member initialisers
EmptyBuffer == [data |-> NULL, capacity |-> 0, size |-> 0]

Sizes == 0..MaxCap

\* the capacities tried for a FloatBuffer: the sizes, and one large buffer
Capacities == Sizes \cup {2 * MaxCap}

\* a - b on an unsigned type (size_t, u32).  When a < b the result wraps to
\* 2^w - (b - a); 2^w is not a TLC integer, so the wrapped value is placed at
\* the top of TLC's range: it is larger than every request size of the model,
\* which is all the code uses it for.
UnsignedSub(a, b) == IF a >= b THEN a - b ELSE 2147483647 - (b - a) + 1

\* std::malloc(n): a fresh block, or nullptr when the allocation fails.  The
\* result of malloc(0) is implementation-defined: either.
MallocResults == {NULL, next_block}

\* auto is_valid = buffer.data && buffer.capacity && buffer.size < buffer.capacity;
IsValid(b) == b.data # NULL /\ b.capacity # 0 /\ b.size < b.capacity

\* the comparison written > instead of >=: an exact fit is refused
BytesAvailable_strict(b, n) == UnsignedSub(b.capacity, b.size) > n

\* auto bytes_available = (buffer.capacity - buffer.size) >= n_bytes;
BytesAvailable(b, n) == UnsignedSub(b.capacity, b.size) >= n

\* the size left out of the address: auto data = buffer.data;
PushAddr_start(b) == Addr(b.data, 0)

\* auto data = buffer.data + buffer.size;
PushAddr(b) == Addr(b.data, b.size)

\* the size assigned instead of advanced: buffer.size = n_bytes;
Pushed_assigned(b, n) == [b EXCEPT !.size = n]

\* buffer.size += n_bytes;
Pushed(b, n) == [b EXCEPT !.size = b.size + n]

\* the validated push, shared by buffer_push, MemoryBuffer::push and push_elements
Push(name, n) ==
    /\ op' = name
    /\ prev_op' = op
    /\ arg' = n
    /\ IF ~IsValid(buffer) \/ ~BytesAvailable(buffer, n)
       THEN /\ ret' = nullptr
            /\ buffer' = buffer
            /\ UNCHANGED <<regions, first_push>>
       ELSE /\ Len(regions) < MaxPushes
            /\ ret' = PushAddr(buffer)
            /\ buffer' = Pushed(buffer, n)
            /\ regions' = Append(regions, [blk |-> buffer.data, start |-> buffer.size, len |-> n])
            /\ first_push' = IF first_push = nullptr THEN PushAddr(buffer) ELSE first_push
    /\ UNCHANGED <<kind, alive, live, frees, next_block, since, destroyed>>

\* only the size set back: the pointer and the capacity left as they were
Destroyed_size_only(b) == [b EXCEPT !.size = 0]

\* the pointer left dangling: data = nullptr forgotten after std::free
Destroyed_dangling(b) == [b EXCEPT !.capacity = 0, !.size = 0]

\* if (data) { std::free(data); data = nullptr; }  capacity = 0; size = 0;
Destroyed(b) == EmptyBuffer

FreeCalls(b) == IF b.data # NULL THEN {b.data} ELSE {}

Release(name) ==
    /\ op' = name
    /\ prev_op' = op
    /\ since' = "destroy"
    /\ destroyed' = TRUE
    /\ first_push' = nullptr
    /\ arg' = 0
    /\ ret' = TRUE
    /\ frees' = [k \in Blocks |-> IF k \in FreeCalls(buffer) THEN frees[k] + 1 ELSE frees[k]]
    /\ live' = live \ FreeCalls(buffer)
    /\ buffer' = Destroyed(buffer)
    /\ regions' = <<>>
    /\ UNCHANGED <<kind, next_block>>

\* ---- ByteBuffer

\* bool buffer_create(ByteBuffer& buffer, size_t n_bytes)
Created(b, data, n) == [b EXCEPT !.data = data, !.capacity = n]

buffer_create(n) ==
    /\ kind = "ByteBuffer"
    /\ next_block <= MaxAllocs
    /\ \E data \in MallocResults :
        /\ buffer' = Created(buffer, data, n)
        /\ ret' = (data # NULL)
        /\ live' = live \cup ({data} \ {NULL})
        /\ next_block' = IF data = NULL THEN next_block ELSE next_block + 1
    /\ op' = "buffer_create"
    /\ prev_op' = op
    /\ since' = "create"
    /\ destroyed' = FALSE
    /\ first_push' = nullptr
    /\ arg' = n
    /\ regions' = <<>>
    /\ UNCHANGED <<kind, alive, frees>>
    /\ UNCHANGED beside_buf

\* void buffer_destroy(ByteBuffer& buffer)
buffer_destroy ==
    /\ kind = "ByteBuffer"
    /\ Release("buffer_destroy")
    /\ UNCHANGED alive
    /\ UNCHANGED beside_buf

\* u8* buffer_push(ByteBuffer& buffer, size_t n_bytes), the validated version
buffer_push(n) ==
    /\ kind = "ByteBuffer"
    /\ Push("buffer_push", n)
    /\ UNCHANGED beside_buf

\* buffer.size = 0;
Reset(b) == [b EXCEPT !.size = 0]

ResetOp(name) ==
    /\ buffer' = Reset(buffer)
    /\ op' = name
    /\ prev_op' = op
    /\ since' = "reset"
    /\ UNCHANGED destroyed
    /\ first_push' = first_push
    /\ arg' = 0
    /\ ret' = TRUE
    /\ regions' = <<>>
    /\ UNCHANGED <<kind, alive, live, frees, next_block>>

\* void buffer_reset(ByteBuffer& buffer)
buffer_reset ==
    /\ kind = "ByteBuffer"
    /\ ResetOp("buffer_reset")
    /\ UNCHANGED beside_buf

\* ---- MemoryBuffer<T>

\* MemoryBuffer(size_t n_elements): a new object, its members default-initialised
MemoryBuffer_ctor(n) ==
    /\ kind = "MemoryBuffer"
    /\ ~alive
    /\ next_block <= MaxAllocs
    /\ \E data \in MallocResults :
        /\ buffer' = Created(EmptyBuffer, data, n)
        /\ live' = live \cup ({data} \ {NULL})
        /\ next_block' = IF data = NULL THEN next_block ELSE next_block + 1
    /\ alive' = TRUE
    /\ op' = "MemoryBuffer"
    /\ prev_op' = op
    /\ since' = "create"
    /\ destroyed' = FALSE
    /\ first_push' = nullptr
    /\ arg' = n
    /\ ret' = TRUE
    /\ regions' = <<>>
    /\ UNCHANGED <<kind, frees>>
    /\ UNCHANGED beside_buf

\* T* push(size_t n_elements)
MemoryBuffer_push(n) ==
    /\ kind = "MemoryBuffer"
    /\ alive
    /\ Push("push", n)
    /\ UNCHANGED beside_buf

\* void reset()
MemoryBuffer_reset ==
    /\ kind = "MemoryBuffer"
    /\ alive
    /\ ResetOp("reset")
    /\ UNCHANGED beside_buf

\* void free()
MemoryBuffer_free ==
    /\ kind = "MemoryBuffer"
    /\ alive
    /\ Release("free")
    /\ UNCHANGED alive
    /\ UNCHANGED beside_buf

\* ~MemoryBuffer() { free(); }
MemoryBuffer_dtor ==
    /\ kind = "MemoryBuffer"
    /\ alive
    /\ Release("~MemoryBuffer")
    /\ alive' = FALSE
    /\ UNCHANGED beside_buf

\* ---- FloatBuffer

\* bool host_malloc(FloatBuffer& buffer, u32 n_elements)
host_malloc(n) ==
    /\ kind = "FloatBuffer"
    /\ next_block <= MaxAllocs
    /\ IF n = 0 \/ buffer.data # NULL
       THEN /\ ret' = FALSE
            /\ UNCHANGED <<buffer, live, next_block>>
            /\ UNCHANGED <<since, destroyed, first_push, regions>>
       ELSE /\ \E data \in MallocResults :
                /\ buffer' = IF data # NULL THEN Created(buffer, data, n)
                                            ELSE [buffer EXCEPT !.data = NULL]
                /\ ret' = TRUE
                /\ live' = live \cup ({data} \ {NULL})
                /\ next_block' = IF data = NULL THEN next_block ELSE next_block + 1
            /\ since' = "create"
            /\ destroyed' = FALSE
            /\ first_push' = nullptr
            /\ regions' = <<>>
    /\ op' = "host_malloc"
    /\ prev_op' = op
    /\ arg' = n
    /\ UNCHANGED <<kind, alive, frees>>
    /\ UNCHANGED beside_buf

\* void host_free(FloatBuffer& buffer)
host_free ==
    /\ kind = "FloatBuffer"
    /\ Release("host_free")
    /\ UNCHANGED alive
    /\ UNCHANGED beside_buf

\* bool device_malloc(FloatBuffer& buffer, u32 n_elements): cudaMalloc sets
\* buffer.data and returns cudaSuccess, or leaves it and returns an error
device_malloc(n) ==
    /\ kind = "device FloatBuffer"
    /\ next_block <= MaxAllocs
    /\ IF n = 0 \/ buffer.data # NULL
       THEN /\ ret' = FALSE
            /\ UNCHANGED <<buffer, live, next_block>>
            /\ UNCHANGED <<since, destroyed, first_push, regions>>
       ELSE /\ \E data \in MallocResults :
                LET allocated == data # NULL IN
                /\ buffer' = IF allocated THEN Created(buffer, data, n) ELSE buffer
                /\ ret' = allocated
                /\ live' = live \cup ({data} \ {NULL})
                /\ next_block' = IF data = NULL THEN next_block ELSE next_block + 1
            /\ since' = "create"
            /\ destroyed' = FALSE
            /\ first_push' = nullptr
            /\ regions' = <<>>
    /\ op' = "device_malloc"
    /\ prev_op' = op
    /\ arg' = n
    /\ UNCHANGED <<kind, alive, frees>>
    /\ UNCHANGED beside_buf

\* bool device_free(FloatBuffer& buffer): the result is that of cudaFree
device_free ==
    /\ kind = "device FloatBuffer"
    /\ op' = "device_free"
    /\ prev_op' = op
    /\ since' = "destroy"
    /\ destroyed' = TRUE
    /\ first_push' = nullptr
    /\ arg' = 0
    /\ frees' = [k \in Blocks |-> IF k \in FreeCalls(buffer) THEN frees[k] + 1 ELSE frees[k]]
    /\ \E err \in {"cudaSuccess", "cudaError"} :
        /\ buffer.data = NULL => err = "cudaSuccess"
        /\ ret' = (err = "cudaSuccess")
        /\ live' = IF err = "cudaSuccess" THEN live \ FreeCalls(buffer) ELSE live
    /\ buffer' = Destroyed(buffer)
    /\ regions' = <<>>
    /\ UNCHANGED <<kind, alive, next_block>>
    /\ UNCHANGED beside_buf

\* r32* push_elements(FloatBuffer& buffer, u32 n_elements)
push_elements(n) ==
    /\ kind \in {"FloatBuffer", "device FloatBuffer"}
    /\ Push("push_elements", n)
    /\ UNCHANGED beside_buf

BufInit ==
    /\ kind \in {"ByteBuffer", "MemoryBuffer", "FloatBuffer", "device FloatBuffer"}
    /\ buffer = EmptyBuffer
    /\ alive = FALSE
    /\ live = {}
    /\ frees = [k \in Blocks |-> 0]
    /\ next_block = 1
    /\ op = "none"
    /\ prev_op = "none"
    /\ since = "none"
    /\ destroyed = FALSE
    /\ first_push = nullptr
    /\ arg = 0
    /\ ret = TRUE
    /\ regions = <<>>

ViewIdle ==
    /\ image = [width |-> 0, height |-> 0, data |-> <<>>]
    /\ view = [image_width |-> 0, image_height |-> 0,
               range |-> [x_begin |-> 0, x_end |-> 0, y_begin |-> 0, y_end |-> 0]]
    /\ vstage = "idle"
    /\ visited = <<>>
    /\ before = <<>>
    /\ new_image = [width |-> 0, height |-> 0, data |-> <<>>, allocated |-> FALSE]
    /\ written = 0
    /\ fault = FALSE

\* #define INVALID_SOCKET -1 / #define SOCKET_ERROR -1
INVALID_SOCKET == -1

SOCKET_ERROR == -1

\* ServerSocketInfo server{};
NewServer ==
    [server_socket |-> 0, client_socket |-> 0, server_addr |-> 0,
     open |-> FALSE, bind |-> FALSE, listen |-> FALSE,
     server_running |-> FALSE, client_connected |-> FALSE, port |-> 0]

\* ClientSocketInfo client{};
NewClient == [server_addr |-> 0, client_socket |-> 0, open |-> FALSE, connected |-> FALSE]

SockIdle ==
    /\ server = NewServer
    /\ client = NewClient
    /\ sock_op = "none"
    /\ os_ok = FALSE
    /\ sock_ret = FALSE

\* the two programs of the message exchange
Programs == {"server", "client"}

\* SDL_PollEvent returned 0: no event was pending
NoEvent == [type |-> "none", sym |-> "none", alt |-> FALSE, repeat |-> FALSE, pressed |-> FALSE]

\* the variables of the other components while one component runs
ExchIdle ==
    /\ pc = [p \in Programs |-> "idle"]
    /\ fds = [p \in Programs |-> {}]
    /\ wsa = [p \in Programs |-> "none"]
    /\ backlog = 0
    /\ inbox = [p \in Programs |-> <<>>]
    /\ message_buffer = [p \in Programs |-> ""]
    /\ os_failed = FALSE

AppIdle ==
    /\ app_pc = "idle"
    /\ g_running = FALSE
    /\ event = NoEvent
    /\ drawn = "none"
    /\ cleanups = 0
    /\ exit_code = "none"
    /\ succeeded = {}
    /\ image_data = "nullptr"
    /\ image_frees = 0

KernIdle ==
    /\ kstage = "idle"
    /\ n_elements = 0
    /\ threads = {}
    /\ result = <<>>
    /\ writes = <<>>
    /\ stray = FALSE

VecIdle ==
    /\ variant = "none"
    /\ src_vec = <<>>
    /\ src_in = <<>>
    /\ dst_vec = <<>>
    /\ idx = 0
    /\ todo = {}
    /\ vstate = "idle"

ParIdle ==
    /\ par_state = "idle"
    /\ calls = <<>>
    /\ progress = <<>>
    /\ printed = <<>>
    /\ last_msg = <<0, 0>>

MakeIdle ==
    /\ mtime = <<>>
    /\ clock = 0
    /\ cmd = "none"
    /\ prev_cmd = "none"
    /\ rebuilt = {}
    /\ existed = {}

GradIdle ==
    /\ pixels = <<>>
    /\ gop = "none"
    /\ grad = 0
    /\ asserted = TRUE
    /\ dst_pixel = 0

EdgeIdle ==
    /\ estage = "idle"
    /\ src_image = <<>>
    /\ src_passed = <<>>
    /\ dst_image = <<>>
    /\ edge_threshold = 0
    /\ evaluated = {}
    /\ outside = FALSE

VideoIdle ==
    /\ video_pc = "idle"
    /\ is_running = FALSE
    /\ video_event = NoEvent
    /\ update_frame = <<>>
    /\ screen_image = <<>>
    /\ printed_line = "none"
    /\ rendered = <<>>

DemoIdle ==
    /\ demo_pc = "idle"
    /\ fstate = <<>>
    /\ wrote = <<>>
    /\ runs = <<>>

ChunkIdle ==
    /\ chunk_pc = "idle"
    /\ chunk_src = <<>>
    /\ chunk_dst = <<>>
    /\ chunk_state = <<>>
    /\ chunk_i = <<>>
    /\ chunk_writes = <<>>
    /\ chunk_asserts = TRUE

RestIdle == EdgeIdle /\ VideoIdle /\ DemoIdle /\ ChunkIdle

InitBuffer ==
    /\ BufInit
    /\ ViewIdle /\ SockIdle /\ ExchIdle /\ AppIdle /\ KernIdle
    /\ VecIdle /\ ParIdle /\ MakeIdle /\ GradIdle
    /\ RestIdle

NextBuffer ==
    \/ \E n \in Sizes : buffer_create(n)
    \/ buffer_destroy
    \/ \E n \in Sizes : buffer_push(n)
    \/ buffer_reset
    \/ \E n \in Sizes : MemoryBuffer_ctor(n)
    \/ \E n \in Sizes : MemoryBuffer_push(n)
    \/ MemoryBuffer_reset
    \/ MemoryBuffer_free
    \/ MemoryBuffer_dtor
    \/ \E n \in Capacities : host_malloc(n)
    \/ host_free
    \/ \E n \in Capacities : device_malloc(n)
    \/ device_free
    \/ \E n \in Sizes : push_elements(n)

SpecBuffer == InitBuffer /\ [][NextBuffer]_vars

(***************************************************************************)
(* IMAGE VIEWS                                                             *)
(***************************************************************************)
Dims == 1..MaxDim

\* coordinates a range may name: inside the image and up to two past it
Coords == 0..(MaxDim + 1)

\* class Range2Du32.  The ranges tried are ordered (begin <= end); they may be
\* empty and may reach outside the image.
Ranges ==
    {r \in [x_begin : Coords, x_end : Coords, y_begin : Coords, y_end : Coords] :
        r.x_begin <= r.x_end /\ r.y_begin <= r.y_end}

\* The pixels of a w x h image as read from file: pixel k of the buffer holds
\* k, so that every pixel is told apart from every other and from its inverse.
LoadedImage(w, h) == [width |-> w, height |-> h, data |-> [k \in 1..(w * h) |-> k]]

\* GrayView(GrayImage const& image, Range2Du32 const& range)
GrayView(img, range) ==
    [image_width |-> img.width, image_height |-> img.height, range |-> range]

\* u32 width() / u32 height()
width(v) == v.range.x_end - v.range.x_begin

height(v) == v.range.y_end - v.range.y_begin

\* explicit iterator(GrayView const& view): the position (x_, y_)
iterator(v) == [x |-> v.range.x_begin, y |-> v.range.y_begin]

\* the comparison written > instead of >=: the row ends one pixel late
next_late(it, r) ==
    IF it.x + 1 > r.x_end THEN [x |-> r.x_begin, y |-> it.y + 1]
                          ELSE [x |-> it.x + 1, y |-> it.y]

\* void next()
next(it, r) ==
    IF it.x + 1 >= r.x_end THEN [x |-> r.x_begin, y |-> it.y + 1]
                           ELSE [x |-> it.x + 1, y |-> it.y]

\* iterator end(): x_ = x_end - 1; y_ = y_end - 1; next();
\* On u32, 0 - 1 wraps to 2^32 - 1 and ++ wraps it back to 0: -1 stands for
\* 2^32 - 1 here, and next() adds the 1 back before it compares.
iterator_end(v) == next([x |-> v.range.x_end - 1, y |-> v.range.y_end - 1], v.range)

\* iterator begin() / iterator end() of GrayView
begin(v) == iterator(v)

end(v) == iterator_end(v)

\* xy_ptr(): the offset of the pixel into the image buffer
xy_offset(it, v) == it.y * v.image_width + it.x

\* more increments than any walk over an ordered range of Coords makes
WalkLimit == (MaxDim + 2) * (MaxDim + 2) + 1

\* for (; first != last; ++first): the positions dereferenced, in order
RECURSIVE WalkFrom(_, _, _, _)
WalkFrom(first, last, r, fuel) ==
    IF first = last \/ fuel = 0 THEN <<>>
    ELSE <<first>> \o WalkFrom(next(first, r), last, r, fuel - 1)

Walk(v) == WalkFrom(begin(v), end(v), v.range, WalkLimit)

\* the offsets of a walk that lie in a buffer of n pixels
InBuffer(off, n) == 0 <= off /\ off < n

Offsets(v) == [k \in 1..Len(Walk(v)) |-> xy_offset(Walk(v)[k], v)]

\* the leading offsets up to the first one outside a buffer of n pixels
RECURSIVE ValidPrefix(_, _)
ValidPrefix(offs, n) ==
    IF offs = <<>> \/ ~InBuffer(Head(offs), n) THEN <<>>
    ELSE <<Head(offs)>> \o ValidPrefix(Tail(offs), n)

\* auto const invert = [](GrayPixel& p) { p = 255 - p; };
invert(p) == 255 - p

\* std::for_each(view.begin(), view.end(), invert) on the pixel buffer; a
\* write outside the buffer lands in other memory and is not followed
RECURSIVE for_each_invert(_, _)
for_each_invert(data, offs) ==
    IF offs = <<>> THEN data
    ELSE LET k == Head(offs) IN
         for_each_invert(
            IF InBuffer(k, Len(data)) THEN [data EXCEPT ![k + 1] = invert(data[k + 1])]
                                      ELSE data,
            Tail(offs))

\* void invert_gray(GrayView const& view)
\* A dereference outside the image buffer is undefined: the program stops at
\* it, or runs on with the write landing elsewhere.
invert_gray ==
    /\ vstage \in {"viewed", "inverted"}
    /\ visited' = Walk(view)
    /\ before' = image.data
    /\ LET offs == Offsets(view)
           n    == Len(image.data)
           ok   == \A k \in 1..Len(offs) : InBuffer(offs[k], n)
       IN  IF ok
           THEN /\ image' = [image EXCEPT !.data = for_each_invert(image.data, offs)]
                /\ vstage' = "inverted"
                /\ fault' = FALSE
           ELSE /\ fault' = TRUE
                /\ \/ /\ image' = [image EXCEPT !.data = for_each_invert(image.data, ValidPrefix(offs, n))]
                      /\ vstage' = "crashed"
                   \/ /\ image' = [image EXCEPT !.data = for_each_invert(image.data, offs)]
                      /\ vstage' = "inverted"
    /\ UNCHANGED <<view, new_image, written>>
    /\ UNCHANGED beside_view

\* GrayView view(image, range);
GrayView_ctor(range) ==
    /\ vstage = "loaded"
    /\ view' = GrayView(image, range)
    /\ vstage' = "viewed"
    /\ UNCHANGED <<image, visited, before, new_image, written, fault>>
    /\ UNCHANGED beside_view

\* the content of memory malloc returned and nothing has written yet
Uninitialised == -1

\* GrayImage(u32 w, u32 h): width, height and data are set only if malloc
\* returned memory; malloc(0) may return a null or a non-null pointer
GrayImage(w, h, ptr_ok) ==
    IF ptr_ok
    THEN [width |-> w, height |-> h, data |-> [k \in 1..(w * h) |-> Uninitialised],
          allocated |-> TRUE]
    ELSE [width |-> 0, height |-> 0, data |-> <<>>, allocated |-> FALSE]

\* GrayImage new_image(view.width(), view.height());
GrayImage_ctor ==
    /\ vstage \in {"viewed", "inverted"}
    /\ \E ptr_ok \in BOOLEAN : new_image' = GrayImage(width(view), height(view), ptr_ok)
    /\ vstage' = "created"
    /\ written' = 0
    /\ fault' = FALSE
    /\ UNCHANGED <<image, view, visited, before>>
    /\ UNCHANGED beside_view

\* what a read outside the image buffer may yield
Garbage == {0, 255}

\* std::copy(first, last, d_first): *d_first++ = *first++ for every position
RECURSIVE copy_pixels(_, _, _, _, _)
copy_pixels(dst, src, offs, at, junk) ==
    IF offs = <<>> THEN dst
    ELSE LET p == IF InBuffer(Head(offs), Len(src)) THEN src[Head(offs) + 1] ELSE junk IN
         copy_pixels(
            IF InBuffer(at, Len(dst)) THEN [dst EXCEPT ![at + 1] = p] ELSE dst,
            src, Tail(offs), at + 1, junk)

\* the leading positions std::copy handles before its first access outside
\* the source buffer or the destination buffer
RECURSIVE CopyPrefix(_, _, _, _)
CopyPrefix(offs, n_src, n_dst, at) ==
    IF offs = <<>> \/ ~InBuffer(Head(offs), n_src) \/ ~InBuffer(at, n_dst) THEN <<>>
    ELSE <<Head(offs)>> \o CopyPrefix(Tail(offs), n_src, n_dst, at + 1)

\* std::copy(view.begin(), view.end(), new_image.begin());
\* An access outside either buffer is undefined: the program stops at it, or
\* runs on with the write landing elsewhere and the read yielding anything.
std_copy ==
    /\ vstage = "created"
    /\ visited' = Walk(view)
    /\ LET offs == Offsets(view)
           n    == Len(image.data)
           m    == Len(new_image.data)
           ok   == /\ \A k \in 1..Len(offs) : InBuffer(offs[k], n)
                   /\ Len(offs) <= m
       IN  IF ok
           THEN /\ new_image' = [new_image EXCEPT !.data = copy_pixels(new_image.data, image.data, offs, 0, 0)]
                /\ written' = Len(offs)
                /\ vstage' = "copied"
                /\ fault' = FALSE
           ELSE /\ fault' = TRUE
                /\ \/ LET pre == CopyPrefix(offs, n, m, 0) IN
                      /\ new_image' = [new_image EXCEPT !.data = copy_pixels(new_image.data, image.data, pre, 0, 0)]
                      /\ written' = Len(pre)
                      /\ vstage' = "crashed"
                   \/ \E junk \in Garbage :
                      /\ new_image' = [new_image EXCEPT !.data = copy_pixels(new_image.data, image.data, offs, 0, junk)]
                      /\ written' = Len(offs)
                      /\ vstage' = "copied"
    /\ UNCHANGED <<image, view, before>>
    /\ UNCHANGED beside_view

\* the buffer variables while another component runs
BufIdle ==
    /\ kind = "none"
    /\ buffer = EmptyBuffer
    /\ alive = FALSE
    /\ live = {}
    /\ frees = [k \in Blocks |-> 0]
    /\ next_block = 1
    /\ op = "none"
    /\ prev_op = "none"
    /\ arg = 0
    /\ ret = TRUE
    /\ since = "none"
    /\ destroyed = FALSE
    /\ first_push = nullptr
    /\ regions = <<>>

\* after read_image_from_file("image path", image)
InitView ==
    /\ \E w \in Dims, h \in Dims : image = LoadedImage(w, h)
    /\ view = GrayView([width |-> 0, height |-> 0],
                       [x_begin |-> 0, x_end |-> 0, y_begin |-> 0, y_end |-> 0])
    /\ vstage = "loaded"
    /\ visited = <<>>
    /\ before = <<>>
    /\ new_image = GrayImage(0, 0, FALSE)
    /\ written = 0
    /\ fault = FALSE
    /\ BufIdle /\ SockIdle /\ ExchIdle /\ AppIdle /\ KernIdle
    /\ VecIdle /\ ParIdle /\ MakeIdle /\ GradIdle
    /\ RestIdle

NextView ==
    \/ \E range \in Ranges : GrayView_ctor(range)
    \/ invert_gray
    \/ GrayImage_ctor
    \/ std_copy

SpecView == InitView /\ [][NextView]_vars

(***************************************************************************)
(* SOCKETS                                                                 *)
(***************************************************************************)
\* the descriptors socket() and accept() return when they succeed
Descriptors == 1..MaxSocket

\* socket(), accept(): a descriptor, or INVALID_SOCKET when the call fails
SocketResults == Descriptors \cup {INVALID_SOCKET}

\* bind(), listen(), connect(): 0, or SOCKET_ERROR when the call fails
CallResults == {0, SOCKET_ERROR}

\* int port = 58002;
Ports == {58002}

\* bool os_socket_create(socket_t& socket_handle)
os_socket_create(handle) == handle # INVALID_SOCKET

\* bool os_server_open(ServerSocketInfo& server_info, int port)
os_server_open(port) ==
    /\ \E handle \in SocketResults :
        /\ server' = IF os_socket_create(handle)
                     THEN [server EXCEPT !.server_socket = handle, !.open = TRUE,
                                         !.server_addr = port, !.port = port]
                     ELSE [server EXCEPT !.server_socket = handle, !.open = FALSE]
        /\ os_ok' = (handle \in Descriptors)
    /\ sock_op' = "os_server_open"
    /\ sock_ret' = server'.open
    /\ UNCHANGED client
    /\ UNCHANGED beside_sock

\* the result stored in the wrong flag
os_server_bind_sets_listen ==
    /\ \E r \in CallResults :
        /\ server' = [server EXCEPT !.listen = (r # SOCKET_ERROR)]
        /\ os_ok' = (r = 0)
    /\ sock_op' = "os_server_bind"
    /\ sock_ret' = server'.listen
    /\ UNCHANGED client
    /\ UNCHANGED beside_sock

\* bool os_server_bind(ServerSocketInfo& server_info)
os_server_bind ==
    /\ \E r \in CallResults :
        /\ server' = [server EXCEPT !.bind = (r # SOCKET_ERROR)]
        /\ os_ok' = (r = 0)
    /\ sock_op' = "os_server_bind"
    /\ sock_ret' = server'.bind
    /\ UNCHANGED client
    /\ UNCHANGED beside_sock

\* bool os_server_listen(ServerSocketInfo& socket_info)
os_server_listen ==
    /\ \E r \in CallResults :
        /\ server' = [server EXCEPT !.listen = (r # SOCKET_ERROR)]
        /\ os_ok' = (r = 0)
    /\ sock_op' = "os_server_listen"
    /\ sock_ret' = server'.listen
    /\ UNCHANGED client
    /\ UNCHANGED beside_sock

\* bool os_server_accept(ServerSocketInfo& socket_info)
os_server_accept ==
    /\ \E handle \in SocketResults :
        /\ server' = [server EXCEPT !.client_socket = handle,
                                    !.client_connected = (handle # INVALID_SOCKET)]
        /\ os_ok' = (handle \in Descriptors)
    /\ sock_op' = "os_server_accept"
    /\ sock_ret' = server'.client_connected
    /\ UNCHANGED client
    /\ UNCHANGED beside_sock

\* void os_server_disconnect(ServerSocketInfo& server_info)
os_server_disconnect ==
    /\ server' = [server EXCEPT !.client_connected = FALSE]
    /\ sock_op' = "os_server_disconnect"
    /\ os_ok' = TRUE
    /\ sock_ret' = TRUE
    /\ UNCHANGED client
    /\ UNCHANGED beside_sock

\* void os_server_close(ServerSocketInfo& server_info)
os_server_close ==
    /\ server' = [server EXCEPT !.listen = FALSE, !.bind = FALSE, !.open = FALSE]
    /\ sock_op' = "os_server_close"
    /\ os_ok' = TRUE
    /\ sock_ret' = TRUE
    /\ UNCHANGED client
    /\ UNCHANGED beside_sock

\* bool os_client_open(ClientSocketInfo& client_info, const char* server_ip, int server_port)
os_client_open(port) ==
    /\ \E handle \in SocketResults :
        /\ client' = IF os_socket_create(handle)
                     THEN [client EXCEPT !.client_socket = handle, !.open = TRUE,
                                         !.server_addr = port]
                     ELSE [client EXCEPT !.client_socket = handle, !.open = FALSE]
        /\ os_ok' = (handle \in Descriptors)
    /\ sock_op' = "os_client_open"
    /\ sock_ret' = client'.open
    /\ UNCHANGED server
    /\ UNCHANGED beside_sock

\* bool os_client_connect(ClientSocketInfo& client_info)
os_client_connect ==
    /\ \E r \in CallResults :
        /\ client' = [client EXCEPT !.connected = (r # SOCKET_ERROR)]
        /\ os_ok' = (r = 0)
    /\ sock_op' = "os_client_connect"
    /\ sock_ret' = client'.connected
    /\ UNCHANGED server
    /\ UNCHANGED beside_sock

\* void os_client_close(ClientSocketInfo& client_info)
os_client_close ==
    /\ client' = [client EXCEPT !.connected = FALSE, !.open = FALSE]
    /\ sock_op' = "os_client_close"
    /\ os_ok' = TRUE
    /\ sock_ret' = TRUE
    /\ UNCHANGED server
    /\ UNCHANGED beside_sock

InitSocket ==
    /\ SockIdle
    /\ BufIdle /\ ViewIdle /\ ExchIdle /\ AppIdle /\ KernIdle
    /\ VecIdle /\ ParIdle /\ MakeIdle /\ GradIdle
    /\ RestIdle

\* the wrappers called in any order, outside the two programs
NextSocket ==
    \/ \E port \in Ports : os_server_open(port) /\ UNCHANGED exch_vars
    \/ os_server_bind /\ UNCHANGED exch_vars
    \/ os_server_listen /\ UNCHANGED exch_vars
    \/ os_server_accept /\ UNCHANGED exch_vars
    \/ os_server_disconnect /\ UNCHANGED exch_vars
    \/ os_server_close /\ UNCHANGED exch_vars
    \/ \E port \in Ports : os_client_open(port) /\ UNCHANGED exch_vars
    \/ os_client_connect /\ UNCHANGED exch_vars
    \/ os_client_close /\ UNCHANGED exch_vars

SpecSocket == InitSocket /\ [][NextSocket]_vars

(***************************************************************************)
(* THE SERVER AND CLIENT PROGRAMS                                          *)
(* Two processes; a step is one statement of run_server or run_client.     *)
(* The OS keeps, per process, the open descriptors, and between them the   *)
(* backlog of the listening socket and the bytes in flight.  A message of  *)
(* 17 bytes travels whole.                                                 *)
(***************************************************************************)
Peer(p) == IF p = "server" THEN "client" ELSE "server"

\* the program returned from a failed call / ran to the end of the function
Returned == {"return 1", "returned"}

\* the peer has closed its end of the connection, or its program has returned
PeerGone(p) ==
    IF p = "server"
    THEN pc.client \in {"os_socket_cleanup"} \cup Returned
    ELSE pc.server \in {"os_server_close", "os_socket_cleanup"} \cup Returned

At(p, here) == pc[p] = here

Goto(p, there) == pc' = [pc EXCEPT ![p] = there]

\* if (!os_...(...)) { printf("... failed.\n"); return 1; }
OrReturn1(p, ok, there) ==
    /\ Goto(p, IF ok THEN there ELSE "return 1")
    /\ os_failed' = (os_failed \/ ~ok)

\* bool os_socket_init(): WSAStartup, which can fail, on Windows; true elsewhere
os_socket_init(p, there) ==
    /\ \E ok \in BOOLEAN :
        /\ wsa' = [wsa EXCEPT ![p] = IF ok THEN "started" ELSE @]
        /\ OrReturn1(p, ok, there)
    /\ UNCHANGED <<fds, backlog, inbox, message_buffer>>
    /\ UNCHANGED <<sock_vars, beside_sock>>

\* void os_socket_cleanup()
os_socket_cleanup(p, there) ==
    /\ wsa' = [wsa EXCEPT ![p] = "cleaned"]
    /\ Goto(p, there)
    /\ UNCHANGED <<fds, backlog, inbox, message_buffer, os_failed>>
    /\ UNCHANGED <<sock_vars, beside_sock>>

\* socket() / accept() hand out a descriptor the process does not hold yet
Opened(p, handle) ==
    /\ handle \in Descriptors => handle \notin fds[p]
    /\ fds' = [fds EXCEPT ![p] = @ \cup ({handle} \cap Descriptors)]

\* void os_socket_close(socket_t socket)
os_socket_close(p, socket) == fds' = [fds EXCEPT ![p] = @ \ {socket}]

\* bool os_socket_send_buffer(socket_t socket, const char* src, int n_bytes):
\* the caller ignores the result
os_socket_send_buffer(p, message, there) ==
    /\ \E r \in CallResults :
        /\ inbox' = IF r # SOCKET_ERROR
                    THEN [inbox EXCEPT ![Peer(p)] = Append(@, message)]
                    ELSE inbox
        /\ os_failed' = (os_failed \/ r = SOCKET_ERROR)
    /\ message_buffer' = [message_buffer EXCEPT ![p] = message]
    /\ Goto(p, there)
    /\ UNCHANGED <<fds, wsa, backlog>>
    /\ UNCHANGED <<sock_vars, beside_sock>>

\* the socket set to non-blocking: recv returns at once when nothing has arrived
Received_nonblocking(p) ==
    \/ /\ inbox[p] # <<>>
       /\ message_buffer' = [message_buffer EXCEPT ![p] = Head(inbox[p])]
       /\ inbox' = [inbox EXCEPT ![p] = Tail(@)]
       /\ UNCHANGED os_failed
    \/ /\ inbox[p] = <<>>
       /\ message_buffer' = [message_buffer EXCEPT ![p] = ""]
       /\ UNCHANGED <<inbox, os_failed>>

\* recv(socket, dst, n_bytes, 0) into the zeroed buffer: waits for a message;
\* returns 0 when the peer has closed the connection; or fails
Received(p) ==
    \/ /\ inbox[p] # <<>>
       /\ message_buffer' = [message_buffer EXCEPT ![p] = Head(inbox[p])]
       /\ inbox' = [inbox EXCEPT ![p] = Tail(@)]
       /\ UNCHANGED os_failed
    \/ /\ inbox[p] = <<>>
       /\ PeerGone(p)
       /\ message_buffer' = [message_buffer EXCEPT ![p] = ""]
       /\ UNCHANGED <<inbox, os_failed>>
    \/ /\ message_buffer' = [message_buffer EXCEPT ![p] = ""]
       /\ os_failed' = TRUE
       /\ UNCHANGED inbox

\* bool os_socket_receive_buffer(socket_t socket, char* dst, int n_bytes):
\* the caller ignores the result
os_socket_receive_buffer(p, there) ==
    /\ Received(p)
    /\ Goto(p, there)
    /\ UNCHANGED <<fds, wsa, backlog>>
    /\ UNCHANGED <<sock_vars, beside_sock>>

\* auto c = getchar();
getchar(p, there) ==
    /\ Goto(p, there)
    /\ UNCHANGED <<fds, wsa, backlog, inbox, message_buffer, os_failed>>
    /\ UNCHANGED <<sock_vars, beside_sock>>

\* void run_server()
run_server ==
    \/ /\ At("server", "os_socket_init")
       /\ os_socket_init("server", "os_server_open")
    \/ /\ At("server", "os_server_open")
       /\ \E port \in Ports : os_server_open(port)
       /\ Opened("server", server'.server_socket)
       /\ OrReturn1("server", sock_ret', "os_server_bind")
       /\ UNCHANGED <<wsa, backlog, inbox, message_buffer>>
    \/ /\ At("server", "os_server_bind")
       /\ os_server_bind
       /\ OrReturn1("server", sock_ret', "os_server_listen")
       /\ UNCHANGED <<fds, wsa, backlog, inbox, message_buffer>>
    \/ /\ At("server", "os_server_listen")
       /\ os_server_listen
       /\ OrReturn1("server", sock_ret', "os_server_accept")
       /\ UNCHANGED <<fds, wsa, backlog, inbox, message_buffer>>
    \/ /\ At("server", "os_server_accept")
       /\ os_server_accept
       /\ os_ok' => backlog > 0       \* accept() waits for a connection
       /\ backlog' = IF os_ok' THEN backlog - 1 ELSE backlog
       /\ Opened("server", server'.client_socket)
       /\ OrReturn1("server", sock_ret', "os_socket_send_buffer")
       /\ UNCHANGED <<wsa, inbox, message_buffer>>
    \/ /\ At("server", "os_socket_send_buffer")
       /\ os_socket_send_buffer("server", "Hello from server", "os_socket_receive_buffer")
    \/ /\ At("server", "os_socket_receive_buffer")
       /\ os_socket_receive_buffer("server", "getchar")
    \/ /\ At("server", "getchar")
       /\ getchar("server", "os_server_disconnect")
    \/ /\ At("server", "os_server_disconnect")
       /\ os_server_disconnect
       /\ os_socket_close("server", server.client_socket)
       /\ Goto("server", "os_server_close")
       /\ UNCHANGED <<wsa, backlog, inbox, message_buffer, os_failed>>
    \/ /\ At("server", "os_server_close")
       /\ os_server_close
       /\ os_socket_close("server", server.server_socket)
       /\ Goto("server", "os_socket_cleanup")
       /\ UNCHANGED <<wsa, backlog, inbox, message_buffer, os_failed>>
    \/ /\ At("server", "os_socket_cleanup")
       /\ os_socket_cleanup("server", "returned")

\* void run_client()
run_client ==
    \/ /\ At("client", "os_socket_init")
       /\ os_socket_init("client", "os_client_open")
    \/ /\ At("client", "os_client_open")
       /\ \E port \in Ports : os_client_open(port)
       /\ Opened("client", client'.client_socket)
       /\ OrReturn1("client", sock_ret', "os_client_connect")
       /\ UNCHANGED <<wsa, backlog, inbox, message_buffer>>
    \/ /\ At("client", "os_client_connect")
       /\ os_client_connect
       /\ os_ok' => server.listen  \* connect() is refused unless the server listens
       /\ backlog' = IF os_ok' THEN backlog + 1 ELSE backlog
       /\ OrReturn1("client", sock_ret', "os_socket_receive_buffer")
       /\ UNCHANGED <<fds, wsa, inbox, message_buffer>>
    \/ /\ At("client", "os_socket_receive_buffer")
       /\ os_socket_receive_buffer("client", "os_socket_send_buffer")
    \/ /\ At("client", "os_socket_send_buffer")
       /\ os_socket_send_buffer("client", "Hello from client", "getchar")
    \/ /\ At("client", "getchar")
       /\ getchar("client", "os_client_close")
    \/ /\ At("client", "os_client_close")
       /\ os_client_close
       /\ os_socket_close("client", client.client_socket)
       /\ Goto("client", "os_socket_cleanup")
       /\ UNCHANGED <<wsa, backlog, inbox, message_buffer, os_failed>>
    \/ /\ At("client", "os_socket_cleanup")
       /\ os_socket_cleanup("client", "returned")

\* both programs started, in either order
InitExchange ==
    /\ pc = [p \in Programs |-> "os_socket_init"]
    /\ fds = [p \in Programs |-> {}]
    /\ wsa = [p \in Programs |-> "none"]
    /\ backlog = 0
    /\ inbox = [p \in Programs |-> <<>>]
    /\ message_buffer = [p \in Programs |-> ""]
    /\ os_failed = FALSE
    /\ SockIdle
    /\ BufIdle /\ ViewIdle /\ AppIdle /\ KernIdle
    /\ VecIdle /\ ParIdle /\ MakeIdle /\ GradIdle
    /\ RestIdle

NextExchange == run_server \/ run_client

SpecExchange == InitExchange /\ [][NextExchange]_vars

\* the OS keeps running either process as long as it has a statement to
\* execute; how long getchar() waits is up to the user
FairExchange ==
    /\ SpecExchange
    /\ WF_vars(run_server /\ ~At("server", "getchar"))
    /\ WF_vars(run_client /\ ~At("client", "getchar"))

(***************************************************************************)
(* THE SDL2 APPLICATION                                                    *)
(* A step is one statement of main; the event handlers run inside the      *)
(* statement that polls.                                                   *)
(***************************************************************************)
KeyTypes == {"SDL_KEYDOWN", "SDL_KEYUP"}

Keys == {"SDLK_F4", "SDLK_ESCAPE", "SDLK_a", "SDLK_b", "SDLK_c", "SDLK_d", "SDLK_x"}

\* what SDL_PollEvent can deliver: the window's X button, a key going down
\* (possibly as a repeat) or up, with or without ALT held, or another event
Events ==
    {[type |-> "SDL_QUIT", sym |-> "none", alt |-> FALSE, repeat |-> FALSE,
      pressed |-> FALSE],
     [type |-> "SDL_MOUSEMOTION", sym |-> "none", alt |-> FALSE, repeat |-> FALSE,
      pressed |-> FALSE]}
    \cup {[type |-> "SDL_KEYDOWN", sym |-> k, alt |-> a, repeat |-> r, pressed |-> TRUE] :
              k \in Keys, a \in BOOLEAN, r \in BOOLEAN}
    \cup {[type |-> "SDL_KEYUP", sym |-> k, alt |-> a, repeat |-> FALSE, pressed |-> FALSE] :
              k \in Keys, a \in BOOLEAN}

\* void handle_keyboard_event(SDL_Event const& event): what it draws
handle_keyboard_event(e) ==
    IF e.repeat \/ ~e.pressed THEN drawn
    ELSE CASE e.sym = "SDLK_a" -> "RED"
           [] e.sym = "SDLK_b" -> "GREEN"
           [] e.sym = "SDLK_c" -> "BLUE"
           [] e.sym = "SDLK_d" -> "BGR"
           [] OTHER -> drawn

\* F4 quits whether or not ALT is held
handle_sdl_event_any_F4(e) ==
    CASE e.type = "SDL_QUIT" -> g_running' = FALSE /\ UNCHANGED drawn
      [] e.type \in KeyTypes ->
            IF e.sym = "SDLK_F4" THEN g_running' = FALSE /\ UNCHANGED drawn
            ELSE IF e.sym = "SDLK_ESCAPE" THEN g_running' = FALSE /\ UNCHANGED drawn
            ELSE drawn' = handle_keyboard_event(e) /\ UNCHANGED g_running
      [] OTHER -> UNCHANGED <<g_running, drawn>>

\* void handle_sdl_event(SDL_Event const& event)
handle_sdl_event(e) ==
    CASE e.type = "SDL_QUIT" -> g_running' = FALSE /\ UNCHANGED drawn
      [] e.type \in KeyTypes ->
            IF e.sym = "SDLK_F4" /\ e.alt THEN g_running' = FALSE /\ UNCHANGED drawn
            ELSE IF e.sym = "SDLK_ESCAPE" THEN g_running' = FALSE /\ UNCHANGED drawn
            ELSE drawn' = handle_keyboard_event(e) /\ UNCHANGED g_running
      [] OTHER -> UNCHANGED <<g_running, drawn>>

\* a statement of main that only moves on
AppStep(here, there) ==
    /\ app_pc = here
    /\ app_pc' = there
    /\ UNCHANGED <<g_running, event, drawn, cleanups, exit_code>>
    /\ UNCHANGED <<succeeded, image_data, image_frees>>
    /\ UNCHANGED beside_app

\* void destroy_image(Image& image): whether it calls free(image.data)
destroy_image_frees(data) == data # "nullptr"

\* void cleanup(): destroy_window_buffer, SDL_Quit, destroy_image(g_image)
cleanup ==
    /\ cleanups' = cleanups + 1
    /\ image_frees' = IF destroy_image_frees(image_data) THEN image_frees + 1
                                                         ELSE image_frees
    /\ image_data' = "nullptr"

\* a call of main that can fail: on failure main returns EXIT_FAILURE, after
\* calling cleanup() when with_cleanup.  create_image leaves image.data
\* allocated when it succeeds and nullptr when it fails.
AppCall(here, there, with_cleanup) ==
    /\ app_pc = here
    /\ \E ok \in BOOLEAN :
        /\ app_pc' = IF ok THEN there ELSE "returned"
        /\ exit_code' = IF ok THEN exit_code ELSE "EXIT_FAILURE"
        /\ succeeded' = IF ok THEN succeeded \cup {here} ELSE succeeded
        /\ IF ~ok /\ with_cleanup
           THEN cleanup
           ELSE /\ image_data' = IF ok /\ here = "create_image" THEN "allocated"
                                                                 ELSE image_data
                /\ UNCHANGED <<cleanups, image_frees>>
    /\ UNCHANGED <<g_running, event, drawn>>
    /\ UNCHANGED beside_app

\* int main(int argc, char* args[])
main ==
    \/ AppCall("init_sdl", "create_window", FALSE)
    \/ AppCall("create_window", "init_window_buffer", FALSE)
    \/ AppCall("init_window_buffer", "create_image", TRUE)
    \/ AppCall("create_image", "g_running = true", TRUE)
    \/ /\ app_pc = "g_running = true"
       /\ g_running' = TRUE
       /\ app_pc' = "while (g_running)"
       /\ UNCHANGED <<event, drawn, cleanups, exit_code>>
       /\ UNCHANGED <<succeeded, image_data, image_frees>>
       /\ UNCHANGED beside_app
    \/ /\ app_pc = "while (g_running)"
       /\ app_pc' = IF g_running THEN "SDL_PollEvent" ELSE "cleanup"
       /\ UNCHANGED <<g_running, event, drawn, cleanups, exit_code>>
       /\ UNCHANGED <<succeeded, image_data, image_frees>>
       /\ UNCHANGED beside_app
    \/ /\ app_pc = "SDL_PollEvent"
       /\ \E e \in Events \cup {NoEvent} :
           /\ event' = e
           /\ IF e # NoEvent THEN handle_sdl_event(e)
                             ELSE UNCHANGED <<g_running, drawn>>
       /\ app_pc' = "display_image"
       /\ UNCHANGED <<cleanups, exit_code>>
       /\ UNCHANGED <<succeeded, image_data, image_frees>>
       /\ UNCHANGED beside_app
    \/ AppStep("display_image", "wait_for_framerate")
    \/ AppStep("wait_for_framerate", "while (g_running)")
    \/ /\ app_pc = "cleanup"
       /\ cleanup
       /\ exit_code' = "EXIT_SUCCESS"
       /\ app_pc' = "returned"
       /\ UNCHANGED <<g_running, event, drawn, succeeded>>
       /\ UNCHANGED beside_app

\* bool g_running = false; main not entered yet
InitApp ==
    /\ app_pc = "init_sdl"
    /\ g_running = FALSE
    /\ event = NoEvent
    /\ drawn = "none"
    /\ cleanups = 0
    /\ exit_code = "none"
    /\ succeeded = {}
    /\ image_data = "nullptr"
    /\ image_frees = 0
    /\ BufIdle /\ ViewIdle /\ SockIdle /\ ExchIdle /\ KernIdle
    /\ VecIdle /\ ParIdle /\ MakeIdle /\ GradIdle
    /\ RestIdle

NextApp == main

SpecApp == InitApp /\ [][NextApp]_vars

\* the one thread of the application keeps executing main
FairApp == SpecApp /\ WF_vars(main)

(***************************************************************************)
(* THE CUDA KERNEL                                                         *)
(* The threads of the grid run in any order; a thread is one step.         *)
(***************************************************************************)
\* using u32 = unsigned;  a u32 has 2^32 values.  The model keeps 3 bits, and
\* scales the block size with it, so that n_elements ranges over every u32.
U32_VALUES == 8

\* constexpr int THREADS_PER_BLOCK = 1024;  (2^10 of 2^32, here 2^1 of 2^3)
THREADS_PER_BLOCK == 2

\* element i of the device arrays a, b and c passed to the kernel
device(i) == [a |-> i + 1, b |-> 2, c |-> i]

\* r32 multipy_add(r32 a, r32 b, r32 c)
multipy_add(a, b, c) == a * b + c

\* int n_blocks = (n_threads + THREADS_PER_BLOCK - 1) / THREADS_PER_BLOCK;
\* the sum is computed in u32
n_blocks(n_threads) == ((n_threads + THREADS_PER_BLOCK - 1) % U32_VALUES) \div THREADS_PER_BLOCK

\* bool launch_kernel(r32* a, r32* b, r32* c, r32* result, u32 n_elements):
\* gpu_multiply_add <<<n_blocks, THREADS_PER_BLOCK>>> (a, b, c, result, n_elements);
launch_kernel(n) ==
    /\ kstage = "host"
    /\ kstage' = "launched"
    /\ n_elements' = n
    /\ threads' = (0..(n_blocks(n) - 1)) \X (0..(THREADS_PER_BLOCK - 1))
    /\ result' = [i \in 0..(n - 1) |-> "unset"]
    /\ writes' = [i \in 0..(n - 1) |-> 0]
    /\ stray' = FALSE
    /\ UNCHANGED beside_kern

\* void gpu_multiply_add(r32* a, r32* b, r32* c, r32* result, u32 n_elements)
\* as run by thread threadIdx of block blockIdx
gpu_multiply_add(blockIdx, threadIdx) ==
    /\ kstage = "launched"
    /\ <<blockIdx, threadIdx>> \in threads
    /\ threads' = threads \ {<<blockIdx, threadIdx>>}
    /\ LET i == (THREADS_PER_BLOCK * blockIdx + threadIdx) % U32_VALUES IN
       IF i >= n_elements
       THEN UNCHANGED <<result, writes, stray>>
       ELSE /\ result' = [result EXCEPT ![i] = multipy_add(device(i).a, device(i).b, device(i).c)]
            /\ writes' = [writes EXCEPT ![i] = @ + 1]
            /\ stray' = (stray \/ i \notin DOMAIN result)
    /\ UNCHANGED <<kstage, n_elements>>
    /\ UNCHANGED beside_kern

\* cudaError_t err = cudaDeviceSynchronize();  blocks until every thread is done
cudaDeviceSynchronize ==
    /\ kstage = "launched"
    /\ threads = {}
    /\ kstage' = "synchronized"
    /\ UNCHANGED <<n_elements, threads, result, writes, stray>>
    /\ UNCHANGED beside_kern

InitKernel ==
    /\ kstage = "host"
    /\ n_elements = 0
    /\ threads = {}
    /\ result = <<>>
    /\ writes = <<>>
    /\ stray = FALSE
    /\ BufIdle /\ ViewIdle /\ SockIdle /\ ExchIdle /\ AppIdle
    /\ VecIdle /\ ParIdle /\ MakeIdle /\ GradIdle
    /\ RestIdle

NextKernel ==
    \/ \E n \in 0..(U32_VALUES - 1) : launch_kernel(n)
    \/ \E blockIdx \in 0..(U32_VALUES \div THREADS_PER_BLOCK),
          threadIdx \in 0..(THREADS_PER_BLOCK - 1) : gpu_multiply_add(blockIdx, threadIdx)
    \/ cudaDeviceSynchronize

SpecKernel == InitKernel /\ [][NextKernel]_vars

(***************************************************************************)
(* THE VECTOR TRANSFORMS                                                   *)
(* A step is one call of do_work and the store of its result.              *)
(***************************************************************************)
MaxLen == 9    \* longest vector tried: one more than a u32 can count
MaxFirst == 1  \* largest first element tried

\* int do_work(int n), the deterministic variant
do_work(n) == n * 2 + 3

\* dst[i] = do_work(src[i]);
Work(i) == dst_vec' = [dst_vec EXCEPT ![i + 1] = do_work(src_vec[i + 1])]

\* ++i on u32 i
NextIndex(i) == (i + 1) % U32_VALUES

\* void process_vector_for(intVec& src, intVec& dst)
process_vector_for ==
    /\ variant = "for"
    /\ vstate = "running"
    /\ IF idx < Len(src_vec)
       THEN /\ Work(idx)
            /\ idx' = NextIndex(idx)
            /\ UNCHANGED vstate
       ELSE /\ vstate' = "returned"
            /\ UNCHANGED <<dst_vec, idx>>
    /\ UNCHANGED <<variant, src_vec, src_in, todo>>
    /\ UNCHANGED beside_vec

\* void process_vector_stl(intVec& src, intVec& dst): std::transform walks
\* the iterators from src.begin() to src.end()
process_vector_stl ==
    /\ variant = "stl"
    /\ vstate = "running"
    /\ IF idx # Len(src_vec)
       THEN /\ Work(idx)
            /\ idx' = idx + 1
            /\ UNCHANGED vstate
       ELSE /\ vstate' = "returned"
            /\ UNCHANGED <<dst_vec, idx>>
    /\ UNCHANGED <<variant, src_vec, src_in, todo>>
    /\ UNCHANGED beside_vec

\* void process_vector_par(intVec& src, intVec& dst): std::transform with
\* std::execution::par applies do_work to the elements in any order and
\* returns when all are done
process_vector_par ==
    /\ variant = "par"
    /\ vstate = "running"
    /\ \/ \E i \in todo :
            /\ Work(i)
            /\ todo' = todo \ {i}
            /\ UNCHANGED vstate
       \/ /\ todo = {}
          /\ vstate' = "returned"
          /\ UNCHANGED <<dst_vec, todo>>
    /\ UNCHANGED <<variant, src_vec, src_in, idx>>
    /\ UNCHANGED beside_vec

\* intVec src(n_elements, ...); intVec dst(n_elements, 0); one of the three
\* functions called on them
InitVector ==
    /\ variant \in {"for", "stl", "par"}
    /\ \E n \in 0..MaxLen, first \in 0..MaxFirst :
        /\ src_vec = [i \in 1..n |-> first + i]
        /\ dst_vec = [i \in 1..n |-> 0]
    /\ src_in = src_vec
    /\ idx = 0
    /\ todo = 0..(Len(src_vec) - 1)
    /\ vstate = "running"
    /\ BufIdle /\ ViewIdle /\ SockIdle /\ ExchIdle /\ AppIdle
    /\ KernIdle /\ ParIdle /\ MakeIdle /\ GradIdle
    /\ RestIdle

NextVector == process_vector_for \/ process_vector_stl \/ process_vector_par

SpecVector == InitVector /\ [][NextVector]_vars

\* the calling thread, and the tasks of the parallel algorithm, keep running
FairVector == SpecVector /\ WF_vars(NextVector)

(***************************************************************************)
(* THE FUNCTIONS RUN IN PARALLEL                                           *)
(* A step is one printf; printf writes its string to stdout whole.         *)
(***************************************************************************)
\* print_message1 .. print_message5 in funcs
N_FUNCS == 5

\* the printf statements of each
N_PRINTF == 5

Funcs == 1..N_FUNCS

Messages == Funcs \X (1..N_PRINTF)

\* an element for_each may hand to execute again
Pending_any == Funcs

\* the elements of funcs std::for_each has not handed to execute yet
Pending == {f \in Funcs : calls[f] = 0}

\* void print_messages_par(): funcs built, std::for_each entered
print_messages_par ==
    /\ par_state = "called"
    /\ par_state' = "running"
    /\ UNCHANGED <<calls, progress, printed, last_msg>>
    /\ UNCHANGED beside_par

\* auto const execute = [](auto const& func) { func(); };  on some thread
execute(f) ==
    /\ par_state = "running"
    /\ f \in Pending
    /\ calls' = [calls EXCEPT ![f] = @ + 1]
    /\ progress' = [progress EXCEPT ![f] = 0]
    /\ UNCHANGED <<par_state, printed, last_msg>>
    /\ UNCHANGED beside_par

\* void print_message1() .. print_message5(): the next printf of function f
print_message(f) ==
    /\ par_state = "running"
    /\ calls[f] > 0
    /\ progress[f] < N_PRINTF
    /\ progress' = [progress EXCEPT ![f] = @ + 1]
    /\ printed' = [printed EXCEPT ![<<f, progress[f] + 1>>] = @ + 1]
    /\ last_msg' = <<f, progress[f] + 1>>
    /\ UNCHANGED <<par_state, calls>>
    /\ UNCHANGED beside_par

\* std::for_each(std::execution::par, ...) returns: every element has been
\* handed to execute and every call has returned
for_each_returns ==
    /\ par_state = "running"
    /\ Pending = {}
    /\ \A f \in Funcs : progress[f] = N_PRINTF
    /\ par_state' = "returned"
    /\ UNCHANGED <<calls, progress, printed, last_msg>>
    /\ UNCHANGED beside_par

InitPar ==
    /\ par_state = "called"
    /\ calls = [f \in Funcs |-> 0]
    /\ progress = [f \in Funcs |-> 0]
    /\ printed = [m \in Messages |-> 0]
    /\ last_msg = <<0, 0>>
    /\ BufIdle /\ ViewIdle /\ SockIdle /\ ExchIdle /\ AppIdle
    /\ KernIdle /\ VecIdle /\ MakeIdle /\ GradIdle
    /\ RestIdle

NextPar ==
    \/ print_messages_par
    \/ \E f \in Funcs : execute(f)
    \/ \E f \in Funcs : print_message(f)
    \/ for_each_returns

SpecPar == InitPar /\ [][NextPar]_vars

(***************************************************************************)
(* THE FINAL MAKEFILE                                                      *)
(* A step is one command in the project directory: make run, make clean,   *)
(* or an edit of a source file.  mtime is a file's time of last change, 0  *)
(* while the file does not exist.  The directory ./build exists and the    *)
(* compiler succeeds.                                                      *)
(***************************************************************************)
MaxClock == 6

main_c == "./code/main.cpp"
main_o == "./build/main.o"
math_h == "./code/math.hpp"
add_c == "./code/add.cpp"
add_o == "./code/add.o"
subtract_c == "./code/subtract.cpp"
subtract_o == "./build/subtract.o"
program_exe == "./build/my_program"

object_files == {main_o, add_o, subtract_o}

SourceFiles == {main_c, math_h, add_c, subtract_c}

Files == SourceFiles \cup object_files \cup {program_exe}

\* The files matched by $(build)/*.
InBuild == {main_o, subtract_o, program_exe}

Prerequisites(target) ==
    CASE target = main_o -> {main_c, math_h}
      [] target = add_o -> {add_c}
      [] target = subtract_o -> {subtract_c}
      [] target = program_exe -> object_files
      [] OTHER -> {}

\* make's rule: a target is remade when it does not exist or when one of
\* its prerequisites is newer.
OutOfDate(target, times) ==
    \/ times[target] = 0
    \/ \E p \in Prerequisites(target) : times[p] > times[target]

Existing == {f \in Files : mtime[f] > 0}

make_run ==
    /\ clock + 2 <= MaxClock
    /\ LET compiled == {o \in object_files : OutOfDate(o, mtime)}
           objects == [f \in Files |->
                         IF f \in compiled THEN clock + 1 ELSE mtime[f]]
           linked == OutOfDate(program_exe, objects)
       IN  /\ mtime' = [objects EXCEPT
                          ![program_exe] = IF linked THEN clock + 2 ELSE @]
           /\ rebuilt' = compiled \cup
                         (IF linked THEN {program_exe} ELSE {})
           /\ clock' = IF linked THEN clock + 2 ELSE clock
    /\ cmd' = "make run"
    /\ prev_cmd' = cmd
    /\ existed' = Existing
    /\ UNCHANGED beside_make

make_clean ==
    /\ mtime' = [f \in Files |-> IF f \in InBuild THEN 0 ELSE mtime[f]]
    /\ rebuilt' = {}
    /\ cmd' = "make clean"
    /\ prev_cmd' = cmd
    /\ existed' = Existing
    /\ UNCHANGED clock
    /\ UNCHANGED beside_make

edit(file) ==
    /\ clock + 1 <= MaxClock
    /\ mtime' = [mtime EXCEPT ![file] = clock + 1]
    /\ clock' = clock + 1
    /\ rebuilt' = {}
    /\ cmd' = "edit"
    /\ prev_cmd' = cmd
    /\ existed' = Existing
    /\ UNCHANGED beside_make

InitMake ==
    /\ mtime = [f \in Files |-> IF f \in SourceFiles THEN 1 ELSE 0]
    /\ clock = 1
    /\ cmd = "none"
    /\ prev_cmd = "none"
    /\ rebuilt = {}
    /\ existed = SourceFiles
    /\ BufIdle /\ ViewIdle /\ SockIdle /\ ExchIdle /\ AppIdle
    /\ KernIdle /\ VecIdle /\ ParIdle /\ GradIdle
    /\ RestIdle

NextMake ==
    \/ make_run
    \/ make_clean
    \/ \E file \in SourceFiles : edit(file)

SpecMake == InitMake /\ [][NextMake]_vars

(***************************************************************************)
(* THE IMAGE GRADIENTS                                                     *)
(* pixels is the 3 x 3 neighbourhood of an interior position, row by row.  *)
(* A step is one iteration of the inner loop of x_gradients, y_gradients,  *)
(* gradients or edges at that position.  The kernel weights are multiples  *)
(* of 0.25 and the pixels are integers, so the float sums are exact; the   *)
(* model keeps every gradient multiplied by SCALE.                         *)
(***************************************************************************)
NLevels == 2

SCALE == 4

U8_MAX == 255

\* NLevels pixel values spread over the range of u8, both ends included.
Levels == {(k * U8_MAX) \div (NLevels - 1) : k \in 0 .. NLevels - 1}

Thresholds == {0, U8_MAX \div 2 + 1, U8_MAX}

GRAD_LR_3X3_doubled ==
    <<-2, 0, 2,
      -4, 0, 4,
      -2, 0, 2>>

GRAD_LR_3X3 ==
    <<-1, 0, 1,
      -2, 0, 2,
      -1, 0, 1>>

GRAD_TB_3X3 ==
    <<-1, -2, -1,
       0,  0,  0,
       1,  2,  1>>

GRAD_TBLR_3X3 ==
    <<-2, -1, 0,
      -1,  0, 1,
       0,  1, 2>>

GRAD_TBRL_3X3 ==
    <<0, -1, -2,
      1,  0, -1,
      2,  1,  0>>

abs(n) == IF n < 0 THEN -n ELSE n

max(a, b) == IF a < b THEN b ELSE a

\* The accumulation of kernel[a] * p over the nine positions a.
RECURSIVE Accumulate(_, _, _)
Accumulate(kernel, p, a) ==
    IF a = 0 THEN 0
    ELSE Accumulate(kernel, p, a - 1) + kernel[a] * p[a]

x_gradient_at_xy(p) == abs(Accumulate(GRAD_LR_3X3, p, 9))

y_gradient_at_xy(p) == abs(Accumulate(GRAD_TB_3X3, p, 9))

max_abs(a, b, c, d) == max(max(abs(a), abs(b)), max(abs(c), abs(d)))

gradient_at_xy(p) ==
    max_abs(Accumulate(GRAD_LR_3X3, p, 9), Accumulate(GRAD_TB_3X3, p, 9),
            Accumulate(GRAD_TBLR_3X3, p, 9), Accumulate(GRAD_TBRL_3X3, p, 9))

\* (u8)grad: the fraction is dropped; a value that does not fit in u8 is
\* undefined behaviour and may give any u8.
u8_cast(g) ==
    IF g >= 0 /\ g \div SCALE <= U8_MAX THEN {g \div SCALE} ELSE 0 .. U8_MAX

\* The body of the inner loop: the two assertions, which abort the program
\* when they fail, and the store to dst_row[x] of store[(u8)grad].
GradientStep(name, g, store) ==
    /\ asserted
    /\ gop' = name
    /\ grad' = g
    /\ asserted' = (g >= 0 /\ g <= SCALE * U8_MAX)
    /\ IF asserted'
       THEN \E value \in u8_cast(g) : dst_pixel' = store[value]
       ELSE UNCHANGED dst_pixel
    /\ UNCHANGED pixels
    /\ UNCHANGED beside_grad

\* dst_row[x] = (u8)grad
Stored == [value \in 0 .. U8_MAX |-> value]

\* dst_row[x] = (u8)grad >= threshold ? 255 : 0
Binarized(threshold) ==
    [value \in 0 .. U8_MAX |-> IF value >= threshold THEN U8_MAX ELSE 0]

x_gradients ==
    GradientStep("x_gradients", x_gradient_at_xy(pixels), Stored)

y_gradients ==
    GradientStep("y_gradients", y_gradient_at_xy(pixels), Stored)

gradients ==
    GradientStep("gradients", gradient_at_xy(pixels), Stored)

edges(threshold) ==
    GradientStep("edges", gradient_at_xy(pixels), Binarized(threshold))

InitGradient ==
    /\ pixels \in [1 .. 9 -> Levels]
    /\ gop = "none"
    /\ grad = 0
    /\ asserted = TRUE
    /\ dst_pixel = 0
    /\ BufIdle /\ ViewIdle /\ SockIdle /\ ExchIdle /\ AppIdle
    /\ KernIdle /\ VecIdle /\ ParIdle /\ MakeIdle
    /\ RestIdle

NextGradient ==
    \/ x_gradients
    \/ y_gradients
    \/ gradients
    \/ \E threshold \in Thresholds : edges(threshold)

SpecGradient == InitGradient /\ [][NextGradient]_vars

\* every component up to here is idle
FirstIdle ==
    /\ BufIdle /\ ViewIdle /\ SockIdle /\ ExchIdle /\ AppIdle /\ KernIdle
    /\ VecIdle /\ ParIdle /\ MakeIdle /\ GradIdle

(***************************************************************************)
(* EDGES OF AN IMAGE                                                       *)
(* src and dst are two images of equal size, each with its own pixels.  A  *)
(* step is the call of zero_outer(dst), then the two loops of edges.  The  *)
(* assertions on grad hold for every neighbourhood of u8 values, see the   *)
(* image gradients, so they do not appear here.                            *)
(***************************************************************************)
MaxSide == 3

Sides == 1 .. MaxSide

Image(w, h, pixel_data) ==
    [width |-> w, height |-> h, data |-> pixel_data]

\* The positions of an image's pixels.
Positions(img) == (0 .. img.width - 1) \X (0 .. img.height - 1)

Interior(img) ==
    {pos \in Positions(img) :
        /\ 0 < pos[1] /\ pos[1] < img.width - 1
        /\ 0 < pos[2] /\ pos[2] < img.height - 1}

row_begin(img, y) == y * img.width

\* row_begin(image, y)[x]; a read past the pixels gives whatever is there.
pixel_at_xy(img, x, y, garbage) ==
    LET i == row_begin(img, y) + x
    IN  IF i \in DOMAIN img.data THEN img.data[i] ELSE garbage

\* The pixels the loops of gradient_at_xy read: v from y - 1 to y + 1, u from
\* x - 1 to x + 1, a counting them.
Around(x, y) ==
    [a \in 1 .. 9 |-> <<x - 1 + ((a - 1) % 3), y - 1 + ((a - 1) \div 3)>>]

Neighbourhood(img, x, y, garbage) ==
    [a \in 1 .. 9 |-> pixel_at_xy(img, Around(x, y)[a][1], Around(x, y)[a][2],
                                  garbage)]

zero_outer(dst) ==
    LET top_row == row_begin(dst, 0)
        bottom_row == row_begin(dst, UnsignedSub(dst.height, 1))
        zeroed == {top_row + x : x \in 0 .. dst.width - 1}
                  \cup {bottom_row + x : x \in 0 .. dst.width - 1}
                  \cup UNION {{row_begin(dst, y),
                               row_begin(dst, y) + UnsignedSub(dst.width, 1)} :
                              y \in {y \in 1 .. MaxSide :
                                       y < UnsignedSub(dst.height, 1)}}
    IN  [dst EXCEPT !.data = [i \in DOMAIN dst.data |->
                                IF i \in zeroed THEN 0 ELSE dst.data[i]]]

x_end_width(img) == img.width

\* x < src.width - 1 and y < src.height - 1 in u32
x_end(img) == UnsignedSub(img.width, 1)

y_end(img) == UnsignedSub(img.height, 1)

\* The values of x and y the two loops of edges go through.
LoopPositions(img) ==
    {pos \in (1 .. MaxSide + 1) \X (1 .. MaxSide + 1) :
        pos[1] < x_end(img) /\ pos[2] < y_end(img)}

\* (u8)grad of a gradient that is in [0, 255]
Truncated(g) == g \div SCALE

edges_zero_outer ==
    /\ estage = "called"
    /\ estage' = "zeroed"
    /\ dst_image' = zero_outer(dst_image)
    /\ UNCHANGED <<src_image, src_passed, edge_threshold, evaluated, outside>>
    /\ UNCHANGED beside_edge

edges_loops ==
    /\ estage = "zeroed"
    /\ estage' = "returned"
    /\ \E garbage \in {0, U8_MAX} :
         LET at == LoopPositions(src_image)
             value(pos) ==
                 Binarized(edge_threshold)[
                     Truncated(gradient_at_xy(
                         Neighbourhood(src_image, pos[1], pos[2], garbage)))]
             index(pos) == row_begin(dst_image, pos[2]) + pos[1]
         IN  /\ dst_image' =
                   [dst_image EXCEPT !.data =
                       [i \in DOMAIN dst_image.data |->
                           IF \E pos \in at : index(pos) = i
                           THEN value(CHOOSE pos \in at : index(pos) = i)
                           ELSE dst_image.data[i]]]
             /\ evaluated' = at
             /\ outside' =
                   \E pos \in at : \E a \in 1 .. 9 :
                       Around(pos[1], pos[2])[a] \notin Positions(src_image)
    /\ UNCHANGED <<src_image, src_passed, edge_threshold>>
    /\ UNCHANGED beside_edge

\* An image in the manner of the post's chess board: columns and rows are
\* light or dark, and a pixel is white where its column and row differ.
Board(w, h, columns, rows) ==
    Image(w, h, [i \in 0 .. w * h - 1 |->
                   IF columns[i % w] # rows[i \div w] THEN U8_MAX ELSE 0])

InitEdges ==
    /\ estage = "called"
    /\ \E w \in Sides, h \in Sides :
         /\ src_image \in {Board(w, h, columns, rows) :
                             columns \in [0 .. w - 1 -> BOOLEAN],
                             rows \in [0 .. h - 1 -> BOOLEAN]}
         /\ dst_image = Image(w, h, [i \in 0 .. w * h - 1 |-> Uninitialised])
    /\ src_passed = src_image
    /\ edge_threshold \in Thresholds
    /\ evaluated = {}
    /\ outside = FALSE
    /\ FirstIdle /\ VideoIdle /\ DemoIdle /\ ChunkIdle

NextEdges ==
    \/ edges_zero_outer
    \/ edges_loops

SpecEdges == InitEdges /\ [][NextEdges]_vars

(***************************************************************************)
(* THE VIDEO APPLICATION                                                   *)
(* The final program of the basic video post, from the point where main    *)
(* has set state.is_running.  A step is one statement of the loop; the     *)
(* event handlers run inside the statement that polls.  All pixels of the  *)
(* screen image have one colour, or hold a frame of the camera.            *)
(***************************************************************************)
VideoKeys ==
    {"SDLK_F4", "SDLK_ESCAPE", "SDLK_r", "SDLK_g", "SDLK_b", "SDLK_c", "SDLK_x"}

VideoEvents ==
    {[type |-> "SDL_QUIT", sym |-> "none", alt |-> FALSE, repeat |-> FALSE,
      pressed |-> FALSE]}
    \cup {[type |-> "SDL_KEYDOWN", sym |-> k, alt |-> a, repeat |-> r, pressed |-> TRUE] :
              k \in VideoKeys, a \in BOOLEAN, r \in BOOLEAN}
    \cup {[type |-> "SDL_KEYUP", sym |-> k, alt |-> a, repeat |-> FALSE, pressed |-> FALSE] :
              k \in VideoKeys, a \in BOOLEAN}

to_rgba(r, g, b) == [red |-> r, green |-> g, blue |-> b, alpha |-> 255]

\* The function objects state.update_frame can hold.
Nothing == [call |-> "nothing"]

FillImage(color) == [call |-> "fill_image", color |-> color]

GrabAndConvertFrame == [call |-> "grab_and_convert_frame"]

\* void handle_keyboard_event(SDL_Event const& event, AppState& state)
handle_keyboard_event_video(e) ==
    IF e.repeat \/ ~e.pressed
    THEN UNCHANGED <<update_frame, printed_line>>
    ELSE CASE e.sym = "SDLK_r" ->
                /\ update_frame' = FillImage(to_rgba(255, 0, 0))
                /\ printed_line' = "red"
           [] e.sym = "SDLK_g" ->
                /\ update_frame' = FillImage(to_rgba(0, 0, 255))
                /\ printed_line' = "green"
           [] e.sym = "SDLK_b" ->
                /\ update_frame' = FillImage(to_rgba(0, 255, 0))
                /\ printed_line' = "blue"
           [] e.sym = "SDLK_c" ->
                /\ update_frame' = GrabAndConvertFrame
                /\ printed_line' = "camera"
           [] OTHER ->
                /\ printed_line' = "any key"
                /\ UNCHANGED update_frame

\* void handle_sdl_event(SDL_Event const& event, AppState& state)
handle_sdl_event_video(e) ==
    CASE e.type = "SDL_QUIT" ->
            /\ printed_line' = "SDL_QUIT"
            /\ is_running' = FALSE
            /\ UNCHANGED update_frame
      [] e.type \in KeyTypes ->
            IF e.sym = "SDLK_F4"
            THEN IF e.alt
                 THEN /\ printed_line' = "ALT F4"
                      /\ is_running' = FALSE
                      /\ UNCHANGED update_frame
                 ELSE UNCHANGED <<printed_line, is_running, update_frame>>
            ELSE IF e.sym = "SDLK_ESCAPE"
            THEN /\ printed_line' = "ESC"
                 /\ is_running' = FALSE
                 /\ UNCHANGED update_frame
            ELSE /\ handle_keyboard_event_video(e)
                 /\ UNCHANGED is_running
      [] OTHER -> UNCHANGED <<printed_line, is_running, update_frame>>

\* What the camera's frame converts to, and the window before any rendering.
CameraFrame == [frame |-> "camera"]

NoFrame == [frame |-> "none"]

\* state.update_frame(): what the call leaves in state.screen_image.  A
\* camera grab may fail and then leaves the image as it is.
UpdateFrame(f) ==
    CASE f.call = "fill_image" -> {f.color}
      [] f.call = "grab_and_convert_frame" -> {screen_image, CameraFrame}
      [] OTHER -> {screen_image}

\* the loop of main
main_video ==
    \/ /\ video_pc = "while (state.is_running)"
       /\ video_pc' = IF is_running THEN "SDL_PollEvent" ELSE "cleanup"
       /\ UNCHANGED <<is_running, video_event, update_frame, screen_image,
                      printed_line, rendered>>
       /\ UNCHANGED beside_video
    \/ /\ video_pc = "SDL_PollEvent"
       /\ \E e \in VideoEvents \cup {NoEvent} :
           /\ video_event' = e
           /\ IF e # NoEvent
              THEN handle_sdl_event_video(e)
              ELSE UNCHANGED <<printed_line, is_running, update_frame>>
       /\ video_pc' = "state.update_frame()"
       /\ UNCHANGED <<screen_image, rendered>>
       /\ UNCHANGED beside_video
    \/ /\ video_pc = "state.update_frame()"
       /\ screen_image' \in UpdateFrame(update_frame)
       /\ video_pc' = "render_image"
       /\ UNCHANGED <<is_running, video_event, update_frame, printed_line,
                      rendered>>
       /\ UNCHANGED beside_video
    \/ /\ video_pc = "render_image"
       /\ rendered' = screen_image
       /\ video_pc' = "wait_for_framerate"
       /\ UNCHANGED <<is_running, video_event, update_frame, screen_image,
                      printed_line>>
       /\ UNCHANGED beside_video
    \/ /\ video_pc = "wait_for_framerate"
       /\ video_pc' = "while (state.is_running)"
       /\ UNCHANGED <<is_running, video_event, update_frame, screen_image,
                      printed_line, rendered>>
       /\ UNCHANGED beside_video
    \/ /\ video_pc = "cleanup"
       /\ video_pc' = "returned"
       /\ UNCHANGED <<is_running, video_event, update_frame, screen_image,
                      printed_line, rendered>>
       /\ UNCHANGED beside_video

\* create_image has allocated the screen image with calloc, update_frame is
\* []() {}, and main has set state.is_running.
InitVideo ==
    /\ video_pc = "while (state.is_running)"
    /\ is_running = TRUE
    /\ video_event = NoEvent
    /\ update_frame = Nothing
    /\ screen_image = [red |-> 0, green |-> 0, blue |-> 0, alpha |-> 0]
    /\ printed_line = "none"
    /\ rendered = NoFrame
    /\ FirstIdle /\ EdgeIdle /\ DemoIdle /\ ChunkIdle

NextVideo == main_video

SpecVideo == InitVideo /\ [][NextVideo]_vars

(***************************************************************************)
(* THE SERVER SOCKET USED IN ORDER                                         *)
(* The server wrappers called as a program sets a server up: open, then    *)
(* bind once open succeeded, then listen once bind succeeded, then accept  *)
(* once listen succeeded; disconnect and close at any time.                *)
(***************************************************************************)
NextServer ==
    \/ /\ ~server.open
       /\ \E port \in Ports : os_server_open(port)
       /\ UNCHANGED exch_vars
    \/ /\ server.open /\ ~server.bind
       /\ os_server_bind
       /\ UNCHANGED exch_vars
    \/ /\ server.bind /\ ~server.listen
       /\ os_server_listen
       /\ UNCHANGED exch_vars
    \/ /\ server.listen
       /\ os_server_accept
       /\ UNCHANGED exch_vars
    \/ os_server_disconnect /\ UNCHANGED exch_vars
    \/ os_server_close /\ UNCHANGED exch_vars

SpecServer == InitSocket /\ [][NextServer]_vars

(***************************************************************************)
(* THE EXECUTE_PAR DEMONSTRATION                                           *)
(* main has filled funcs and calls execute_par(funcs).  std::for_each with *)
(* std::execution::par calls every function of the list once, on any       *)
(* thread and in any order; a step is the call of a function, the store of *)
(* one element of its destination, or its return.                          *)
(***************************************************************************)
MaxElements == 2

\* f_list funcs of main: the function each lambda calls and the vector it
\* passes as dst.
funcs ==
    <<[call |-> "process_vector_for", dst |-> "dst1"],
      [call |-> "process_vector_stl", dst |-> "dst2"],
      [call |-> "process_vector_par", dst |-> "dst2"]>>

Listed == DOMAIN funcs

Elements == 0 .. MaxElements - 1

\* The elements the function may store next: process_vector_for and
\* process_vector_stl go up from 0, process_vector_par takes them in any
\* order.
NextElements(f) ==
    LET left == Elements \ wrote[f]
    IN  IF funcs[f].call = "process_vector_par" \/ left = {}
        THEN left
        ELSE {CHOOSE i \in left : \A j \in left : i <= j}

execute_par ==
    /\ demo_pc = "execute_par"
    /\ demo_pc' = "for_each"
    /\ UNCHANGED <<fstate, wrote, runs>>
    /\ UNCHANGED beside_demo

func_called(f) ==
    /\ demo_pc = "for_each"
    /\ fstate[f] = "waiting"
    /\ fstate' = [fstate EXCEPT ![f] = "running"]
    /\ runs' = [runs EXCEPT ![f] = @ + 1]
    /\ wrote' = [wrote EXCEPT ![f] = {}]
    /\ UNCHANGED demo_pc
    /\ UNCHANGED beside_demo

func_stores(f) ==
    /\ fstate[f] = "running"
    /\ \E i \in NextElements(f) : wrote' = [wrote EXCEPT ![f] = @ \cup {i}]
    /\ UNCHANGED <<demo_pc, fstate, runs>>
    /\ UNCHANGED beside_demo

func_returns(f) ==
    /\ fstate[f] = "running"
    /\ wrote[f] = Elements
    /\ fstate' = [fstate EXCEPT ![f] = "done"]
    /\ UNCHANGED <<demo_pc, wrote, runs>>
    /\ UNCHANGED beside_demo

execute_par_returns ==
    /\ demo_pc = "for_each"
    /\ \A f \in Listed : fstate[f] = "done"
    /\ demo_pc' = "returned"
    /\ UNCHANGED <<fstate, wrote, runs>>
    /\ UNCHANGED beside_demo

InitDemo ==
    /\ demo_pc = "execute_par"
    /\ fstate = [f \in Listed |-> "waiting"]
    /\ wrote = [f \in Listed |-> {}]
    /\ runs = [f \in Listed |-> 0]
    /\ FirstIdle /\ EdgeIdle /\ VideoIdle /\ ChunkIdle

NextDemo ==
    \/ execute_par
    \/ \E f \in Listed : func_called(f)
    \/ \E f \in Listed : func_stores(f)
    \/ \E f \in Listed : func_returns(f)
    \/ execute_par_returns

SpecDemo == InitDemo /\ [][NextDemo]_vars

(***************************************************************************)
(* THE VECTOR PROCESSED IN FOUR CHUNKS                                     *)
(* process_vector_chunks_4(src, dst) with the assertions compiled in: an   *)
(* assertion that fails aborts the program.  The four calls of             *)
(* process_vector_elements run on any thread and in any order; a step is   *)
(* the entry of a call with its assertions, one store, or its return.      *)
(***************************************************************************)
Chunks == 1 .. 4

chunk_size(n) == n \div 4

\* void_f_list funcs of process_vector_chunks_4: id_begin and id_end of the
\* four calls.
chunk_funcs(n) ==
    <<[id_begin |-> 0, id_end |-> chunk_size(n)],
      [id_begin |-> chunk_size(n), id_end |-> 2 * chunk_size(n)],
      [id_begin |-> 2 * chunk_size(n), id_end |-> 3 * chunk_size(n)],
      [id_begin |-> 3 * chunk_size(n), id_end |-> n]>>

size(vec) == Cardinality(DOMAIN vec)

OfChunk(k) == chunk_funcs(size(chunk_src))[k]

process_vector_chunks_4 ==
    /\ chunk_pc = "called"
    /\ chunk_asserts' = (size(chunk_dst) = size(chunk_src))
    /\ chunk_pc' = IF chunk_asserts' THEN "execute_par" ELSE "aborted"
    /\ UNCHANGED <<chunk_src, chunk_dst, chunk_state, chunk_i, chunk_writes>>
    /\ UNCHANGED beside_chunk

\* the three assertions of process_vector_elements
Asserted(id_begin, id_end) ==
    /\ size(chunk_dst) = size(chunk_src)
    /\ id_end > id_begin
    /\ id_end <= size(chunk_src)

process_vector_elements(k) ==
    /\ chunk_pc = "execute_par"
    /\ chunk_state[k] = "waiting"
    /\ chunk_asserts' = Asserted(OfChunk(k).id_begin, OfChunk(k).id_end)
    /\ IF chunk_asserts'
       THEN /\ chunk_state' = [chunk_state EXCEPT ![k] = "running"]
            /\ chunk_i' = [chunk_i EXCEPT ![k] = OfChunk(k).id_begin]
            /\ UNCHANGED chunk_pc
       ELSE /\ chunk_pc' = "aborted"
            /\ UNCHANGED <<chunk_state, chunk_i>>
    /\ UNCHANGED <<chunk_src, chunk_dst, chunk_writes>>
    /\ UNCHANGED beside_chunk

\* dst[i] = do_work(src[i]); ++i
chunk_stores(k) ==
    /\ chunk_pc = "execute_par"
    /\ chunk_state[k] = "running"
    /\ chunk_i[k] < OfChunk(k).id_end
    /\ chunk_dst' = [chunk_dst EXCEPT ![chunk_i[k]] = do_work(chunk_src[chunk_i[k]])]
    /\ chunk_writes' = [chunk_writes EXCEPT ![chunk_i[k]] = @ \cup {k}]
    /\ chunk_i' = [chunk_i EXCEPT ![k] = @ + 1]
    /\ UNCHANGED <<chunk_pc, chunk_src, chunk_state, chunk_asserts>>
    /\ UNCHANGED beside_chunk

chunk_returns(k) ==
    /\ chunk_pc = "execute_par"
    /\ chunk_state[k] = "running"
    /\ ~(chunk_i[k] < OfChunk(k).id_end)
    /\ chunk_state' = [chunk_state EXCEPT ![k] = "done"]
    /\ UNCHANGED <<chunk_pc, chunk_src, chunk_dst, chunk_i, chunk_writes,
                   chunk_asserts>>
    /\ UNCHANGED beside_chunk

chunks_return ==
    /\ chunk_pc = "execute_par"
    /\ \A k \in Chunks : chunk_state[k] = "done"
    /\ chunk_pc' = "returned"
    /\ UNCHANGED <<chunk_src, chunk_dst, chunk_state, chunk_i, chunk_writes,
                   chunk_asserts>>
    /\ UNCHANGED beside_chunk

\* intVec src(n_elements, ...); intVec dst(n_elements, 0);
InitChunks ==
    /\ chunk_pc = "called"
    /\ \E n \in 1 .. MaxLen :
         /\ chunk_src = [i \in 0 .. n - 1 |-> i]
         /\ chunk_dst = [i \in 0 .. n - 1 |-> 0]
         /\ chunk_writes = [i \in 0 .. n - 1 |-> {}]
    /\ chunk_state = [k \in Chunks |-> "waiting"]
    /\ chunk_i = [k \in Chunks |-> 0]
    /\ chunk_asserts = TRUE
    /\ FirstIdle /\ EdgeIdle /\ VideoIdle /\ DemoIdle

NextChunks ==
    \/ process_vector_chunks_4
    \/ \E k \in Chunks : process_vector_elements(k)
    \/ \E k \in Chunks : chunk_stores(k)
    \/ \E k \in Chunks : chunk_returns(k)
    \/ chunks_return

SpecChunks == InitChunks /\ [][NextChunks]_vars

(***************************************************************************)
(* CLAIMS: bump allocators                                                 *)
(***************************************************************************)
ReleaseOps == {"buffer_destroy", "free", "~MemoryBuffer", "host_free"}

\* C1: whatever sequence of create, validated push, reset and destroy/free
\* calls drives the buffer, size <= capacity in every reachable state.
C1_SizeWithinCapacity == buffer.size <= buffer.capacity

\* a step of buffer_push that returns an address
C2_PushStep ==
    (op' = "buffer_push" /\ ret' # nullptr) =>
        /\ ret' = Addr(buffer.data, buffer.size)
        /\ buffer'.size = buffer.size + arg'
        /\ buffer'.data = buffer.data
        /\ buffer'.capacity = buffer.capacity

\* the regions pushed since the last create, reset or destroy
C2_RegionsDisjoint ==
    kind = "ByteBuffer" =>
        /\ \A i \in 1..(Len(regions) - 1) :
              /\ regions[i + 1].blk = regions[i].blk
              /\ regions[i + 1].start = regions[i].start + regions[i].len
        /\ \A i, j \in 1..Len(regions) :
              i < j => regions[i].start + regions[i].len <= regions[j].start

\* C2: a successful buffer_push(buffer, n) returns data + (size before the
\* call), advances size by exactly n and leaves data and capacity alone; the
\* regions handed out by successive successful pushes (no other operation in
\* between) are contiguous and pairwise non-overlapping.
C2_PushBumps == [][C2_PushStep]_vars /\ []C2_RegionsDisjoint

C2_Witness ==
    /\ op = "buffer_push"
    /\ Len(regions) >= 2
    /\ \A i \in 1..Len(regions) : regions[i].len > 0

\* the cases in which a push of n is to be refused
C3_Refused(b, n) ==
    \/ b.data = NULL
    \/ b.capacity = 0
    \/ b.size >= b.capacity
    \/ b.capacity - b.size < n

C3_PushStep ==
    (op' \in {"buffer_push", "push"}) =>
        /\ C3_Refused(buffer, arg') => (ret' = nullptr /\ buffer' = buffer)
        /\ ~C3_Refused(buffer, arg') => ret' # nullptr

\* C3: the validated buffer_push / MemoryBuffer::push returns nullptr and
\* leaves data, capacity and size unchanged whenever data is null, capacity is
\* 0, size >= capacity or fewer than n remain; otherwise, and only then, it
\* returns a non-null address.
C3_PushValidated == [][C3_PushStep]_vars

\* a push refused only because too few bytes remain
C3_Witness ==
    /\ op \in {"buffer_push", "push"}
    /\ ret = nullptr
    /\ IsValid(buffer)
    /\ buffer.capacity - buffer.size < arg

\* a step of reset
C4_ResetStep ==
    (op' \in {"buffer_reset", "reset"}) =>
        /\ buffer'.size = 0
        /\ buffer'.data = buffer.data
        /\ buffer'.capacity = buffer.capacity
        /\ live' = live /\ next_block' = next_block /\ frees' = frees

\* the first successful push after a reset
C4_FirstPushStep ==
    (/\ op' \in {"buffer_push", "push"} /\ ret' # nullptr
     /\ since = "reset" /\ regions = <<>>) =>
        /\ ret' = Addr(buffer.data, 0)
        /\ first_push # nullptr => ret' = first_push
        /\ live' = live /\ next_block' = next_block /\ frees' = frees

\* C4: buffer_reset / MemoryBuffer::reset sets size to 0 and leaves data and
\* capacity unchanged; the first successful push after a reset returns the
\* start of the buffer, which is the address the first push after create
\* returned, and nothing is allocated or freed on the way.
C4_ResetReuses == [][C4_ResetStep /\ C4_FirstPushStep]_vars

\* the part of C4 that is about reset alone
C4_ResetToStart ==
    [][C4_ResetStep /\
       ((/\ op' \in {"buffer_push", "push"} /\ ret' # nullptr
         /\ since = "reset" /\ regions = <<>>) => ret' = Addr(buffer.data, 0))]_vars

\* C5: buffer_destroy / MemoryBuffer::free leaves data == nullptr, capacity ==
\* 0 and size == 0, and no allocation is passed to std::free more than once,
\* whatever the sequence of calls (a second destroy, the destructor after an
\* explicit free()).
C5_ReleasedOnce ==
    /\ op \in ReleaseOps => buffer = EmptyBuffer
    /\ \A k \in Blocks : frees[k] <= 1

\* the destructor runs after an explicit free() of an allocated buffer
C5_Witness ==
    /\ op = "~MemoryBuffer"
    /\ prev_op = "free"
    /\ \E k \in Blocks : frees[k] = 1

(***************************************************************************)
(* CLAIMS: image views                                                     *)
(***************************************************************************)
\* a walk begin() .. end() over the view has been made
Walked == vstage \in {"inverted", "copied", "crashed"}

\* x_begin < x_end <= image.width and y_begin < y_end <= image.height
NonEmptyInImage(v) ==
    /\ v.range.x_begin < v.range.x_end /\ v.range.x_end <= v.image_width
    /\ v.range.y_begin < v.range.y_end /\ v.range.y_end <= v.image_height

\* the range lies within the image (it may be empty)
RangeInImage(v) ==
    /\ v.range.x_end <= v.image_width
    /\ v.range.y_end <= v.image_height

InRange(x, y, r) ==
    /\ r.x_begin <= x /\ x < r.x_end
    /\ r.y_begin <= y /\ y < r.y_end

\* the pixels of the range in row-major order, x fastest
RowMajor(r) ==
    LET w == r.x_end - r.x_begin
        h == r.y_end - r.y_begin
    IN  [k \in 1..(w * h) |-> [x |-> r.x_begin + ((k - 1) % w), y |-> r.y_begin + ((k - 1) \div w)]]

\* C6: over a non-empty range inside the image, incrementing from begin()
\* until end() dereferences exactly the pixels of the range, each once, in
\* row-major order, and reaches end() after (x_end - x_begin) * (y_end -
\* y_begin) increments.
C6_WalkRowMajor ==
    (Walked /\ NonEmptyInImage(view)) =>
        /\ visited = RowMajor(view.range)
        /\ Len(visited) = width(view) * height(view)
        /\ \A i, j \in 1..Len(visited) : i # j => visited[i] # visited[j]
        /\ \A k \in 1..Len(visited) :
              InRange(visited[k].x, visited[k].y, view.range)

C6_Witness ==
    /\ Walked
    /\ NonEmptyInImage(view)
    /\ width(view) >= 2 /\ height(view) >= 2
    /\ Len(visited) >= 4

\* C7: for any image and any range given to the GrayView constructor, every
\* position dereferenced between begin() and end() has an offset
\* y * image_width + x below image_width * image_height.
C7_WalkInsideImage ==
    Walked =>
        \A k \in 1..Len(visited) :
            xy_offset(visited[k], view) < view.image_width * view.image_height

\* C8: after invert_gray(view), every image pixel inside the view's range
\* holds 255 minus its previous value and every pixel outside it is unchanged.
\* Stated for the ranges that lie within the image.
C8_InvertOnlyInside ==
    (vstage = "inverted" /\ RangeInImage(view)) =>
        \A k \in 0..(Len(image.data) - 1) :
            image.data[k + 1] =
                IF InRange(k % image.width, k \div image.width, view.range)
                THEN 255 - before[k + 1]
                ELSE before[k + 1]

\* C8 restricted to the non-empty ranges within the image
C8_NonEmptyInvertOnlyInside ==
    (vstage = "inverted" /\ NonEmptyInImage(view)) => C8_InvertOnlyInside

\* what std::copy is to have done
C9_Copied ==
    /\ ~fault
    /\ written = width(view) * height(view)
    /\ written <= new_image.width * new_image.height
    /\ vstage = "copied" =>
          \A i \in 0..(width(view) - 1), j \in 0..(height(view) - 1) :
              new_image.data[j * new_image.width + i + 1] =
                  image.data[(view.range.y_begin + j) * image.width + view.range.x_begin + i + 1]

\* C9: std::copy(view.begin(), view.end(), new_image.begin()) into
\* GrayImage(view.width(), view.height()) writes exactly view.width() *
\* view.height() pixels, none past new_image.end(), and new pixel (i, j) is
\* source pixel (x_begin + i, y_begin + j).  Stated for the ranges that lie
\* within the image and a new image whose allocation succeeded.
C9_CopyIsRegion ==
    (vstage \in {"copied", "crashed"} /\ new_image.allocated /\ RangeInImage(view)) => C9_Copied

\* C9 restricted to the non-empty ranges within the image
C9_NonEmptyCopyIsRegion ==
    (vstage \in {"copied", "crashed"} /\ new_image.allocated /\ NonEmptyInImage(view)) => C9_Copied

(***************************************************************************)
(* CLAIMS: sockets                                                         *)
(***************************************************************************)
\* the state flags of the two structures
Flags(sv, cl) ==
    [open |-> sv.open, bind |-> sv.bind, listen |-> sv.listen,
     client_connected |-> sv.client_connected,
     client_open |-> cl.open, connected |-> cl.connected]

\* the flag each function owns
OwnFlag ==
    [os_server_open |-> "open", os_server_bind |-> "bind",
     os_server_listen |-> "listen", os_server_accept |-> "client_connected",
     os_client_open |-> "client_open", os_client_connect |-> "connected"]

\* a call of one of the six functions
C10_Step ==
    (sock_op' \in DOMAIN OwnFlag /\ vars' # vars) =>
        /\ sock_ret' = os_ok'
        /\ Flags(server', client')[OwnFlag[sock_op']] = os_ok'
        /\ ~os_ok' =>
              \A f \in DOMAIN Flags(server, client) \ {OwnFlag[sock_op']} :
                  Flags(server', client')[f] = Flags(server, client)[f]

\* C10: os_server_open, os_server_bind, os_server_listen, os_server_accept,
\* os_client_open and os_client_connect each return true exactly when their
\* OS call succeeded and store that result in their own flag; a failing call
\* changes no other flag.
C10_ResultInOwnFlag == [][C10_Step]_vars

\* bind fails on a server that is open and listening: only bind is cleared
C10_Witness ==
    /\ sock_op = "os_server_bind"
    /\ ~os_ok /\ ~sock_ret /\ ~server.bind
    /\ server.open /\ server.listen

(***************************************************************************)
(* CLAIMS: the server and client programs                                  *)
(***************************************************************************)
\* the statements of each program after its message exchange
AfterExchange ==
    [server |-> {"getchar", "os_server_disconnect", "os_server_close",
                 "os_socket_cleanup", "returned"},
     client |-> {"getchar", "os_client_close", "os_socket_cleanup", "returned"}]

C11_Exchanged == \A p \in Programs : pc[p] \in AfterExchange[p]

\* what each program has in message_buffer when it prints "recv: %s"
C11_Received ==
    /\ (At("client", "os_socket_send_buffer") /\ ~os_failed) =>
           message_buffer.client = "Hello from server"
    /\ (At("server", "getchar") /\ ~os_failed) =>
           message_buffer.server = "Hello from client"

C12_ClosedAndCleanedUp ==
    \A p \in Programs :
        (pc[p] \in Returned /\ wsa[p] # "none") => (fds[p] = {} /\ wsa[p] = "cleaned")

\* the path to the end of the function does close and clean up
C12_EndOfFunction ==
    \A p \in Programs : pc[p] = "returned" => (fds[p] = {} /\ wsa[p] = "cleaned")

(***************************************************************************)
(* CLAIMS: the SDL2 application                                            *)
(***************************************************************************)
\* the events that ask the application to quit
C13_QuitEvent(e) ==
    \/ e.type = "SDL_QUIT"
    \/ e.type \in KeyTypes /\ e.sym = "SDLK_ESCAPE"
    \/ e.type \in KeyTypes /\ e.sym = "SDLK_F4" /\ e.alt

\* a statement of main that polls an event and handles it
C13_HandleStep ==
    (app_pc = "SDL_PollEvent" /\ event' # NoEvent) =>
        /\ C13_QuitEvent(event') => ~g_running'
        /\ ~C13_QuitEvent(event') => g_running' = g_running

\* with g_running false the next loop test leaves the loop
C13_LoopTestStep ==
    (app_pc = "while (g_running)" /\ ~g_running) => app_pc' = "cleanup"

\* only the assignment before the loop sets g_running
C13_StaysFalse == (~g_running /\ g_running') => app_pc = "g_running = true"

C13_Quitting == app_pc = "display_image" /\ ~g_running

\* C13: whenever the polled event is SDL_QUIT, a key event for ESC, or a key
\* event for F4 with ALT held, handle_sdl_event sets g_running to false, the
\* main loop exits at its next loop test, cleanup() runs and main returns
\* EXIT_SUCCESS; no other event changes g_running, and once the loop has
\* started a false g_running never becomes true again.
C13_QuitTerminates ==
    /\ [][C13_HandleStep /\ C13_LoopTestStep /\ C13_StaysFalse]_vars
    /\ (C13_Quitting ~> (app_pc = "returned" /\ exit_code = "EXIT_SUCCESS" /\ cleanups = 1))

C13_Witness ==
    /\ app_pc = "returned" /\ exit_code = "EXIT_SUCCESS" /\ cleanups = 1
    /\ event.type = "SDL_KEYUP" /\ event.sym = "SDLK_F4" /\ event.alt
    /\ drawn = "BGR"

(***************************************************************************)
(* CLAIMS: the CUDA example's buffers                                      *)
(***************************************************************************)
FloatKinds == {"FloatBuffer", "device FloatBuffer"}

\* the buffer was created with capacity 4 * n and so far divided only by
\* pushes of n elements
C14_Dividing(n) ==
    /\ kind \in FloatKinds
    /\ since = "create"
    /\ n >= 1
    /\ buffer.capacity = 4 * n
    /\ \A i \in 1..Len(regions) : regions[i].len = n

\* one of the four push_elements(buffer, n_elements) calls of main
C14_PushStep ==
    (op' = "push_elements" /\ C14_Dividing(arg') /\ Len(regions) < 4) =>
        /\ ret' # nullptr
        /\ ret' = Addr(buffer.data, Len(regions) * arg')
        /\ buffer'.size = (Len(regions) + 1) * arg'

\* the four arrays
C14_Divided ==
    \A n \in Sizes :
        (C14_Dividing(n) /\ Len(regions) = 4) =>
            /\ buffer.size = buffer.capacity
            /\ \A i \in 1..4 : regions[i].blk = buffer.data /\ regions[i].start = (i - 1) * n
            /\ \A i, j \in 1..4 :
                  i < j => regions[i].start + regions[i].len <= regions[j].start
            /\ UNION {regions[i].start..(regions[i].start + n - 1) : i \in 1..3}
                   = 0..(3 * n - 1)

\* C14: on a buffer created with capacity 4 * n_elements (n_elements >= 1),
\* the four consecutive push_elements(buffer, n_elements) calls all succeed
\* and return offsets 0, n, 2n and 3n: four equally sized, pairwise disjoint
\* arrays, with size == capacity afterwards; the first three are contiguous
\* from the start of the buffer, so the elements 0 .. 3n - 1 are exactly them.
C14_FourArrays == [][C14_PushStep]_vars /\ []C14_Divided

C14_Witness ==
    /\ kind = "device FloatBuffer"
    /\ op = "push_elements"
    /\ C14_Dividing(2)
    /\ Len(regions) = 4
    /\ buffer.size = 8

\* a call of host_malloc or device_malloc
C16_MallocStep ==
    (op' \in {"host_malloc", "device_malloc"}) =>
        /\ ret' \in BOOLEAN
        /\ ret' => (/\ buffer.data = NULL
                    /\ buffer'.data # NULL
                    /\ buffer'.capacity = arg'
                    /\ arg' # 0)
        /\ ~ret' => buffer' = buffer
        /\ (arg' = 0 \/ buffer.data # NULL \/ buffer'.data = NULL) => ~ret'

\* C16: host_malloc and device_malloc return true exactly when the call
\* allocated the buffer (afterwards data != nullptr and capacity ==
\* n_elements), and return false, leaving data, capacity and size unchanged,
\* when n_elements is 0, when the buffer is already allocated, or when the
\* underlying allocation fails.
C16_MallocReportsFailure == [][C16_MallocStep]_vars

\* device_malloc alone
C16_DeviceMallocStep == (op' = "device_malloc") => C16_MallocStep

C16_DeviceMallocReportsFailure == [][C16_DeviceMallocStep]_vars

(***************************************************************************)
(* CLAIMS: the CUDA kernel                                                 *)
(***************************************************************************)
\* no thread touches an index >= n_elements and no element is written twice
C15_Safe == ~stray /\ \A i \in DOMAIN writes : writes[i] <= 1

\* after the launch every element has been written, by one thread
C15_Covered ==
    kstage = "synchronized" =>
        \A i \in 0..(n_elements - 1) :
            /\ writes[i] = 1
            /\ result[i] = device(i).a * device(i).b + device(i).c

\* C15: for a kernel launch by launch_kernel with n_elements elements, every
\* index i < n_elements is written by exactly one thread with result[i] =
\* a[i] * b[i] + c[i], no thread reads or writes an index >= n_elements, and
\* no two threads write the same element, for every scheduling of the threads.
C15_CoversSafely == C15_Safe /\ C15_Covered

\* the same while n_elements + THREADS_PER_BLOCK - 1 fits a u32
C15_CoversSafelyBelowWrap ==
    (n_elements + THREADS_PER_BLOCK - 1 < U32_VALUES) => C15_CoversSafely

(***************************************************************************)
(* CLAIMS: the vector transforms                                           *)
(***************************************************************************)
\* what each function leaves when it returns
C17_Result ==
    vstate = "returned" =>
        /\ src_vec = src_in
        /\ dst_vec = [i \in 1..Len(src_in) |-> do_work(src_in[i])]

\* C17: for the deterministic do_work, process_vector_for, process_vector_stl
\* and process_vector_par are equivalent: called on src and dst of equal
\* size, each returns, leaving src unchanged and dst[i] == do_work(src[i])
\* for every index i, whatever the order of the parallel version's tasks.
C17_Equivalent == []C17_Result /\ <>(vstate = "returned")

\* the same for vectors whose size a u32 can hold
C17_EquivalentBelowWrap ==
    /\ []C17_Result
    /\ (Len(src_in) < U32_VALUES) => <>(vstate = "returned")

(***************************************************************************)
(* CLAIMS: the functions run in parallel                                   *)
(***************************************************************************)
\* no function is run twice and no message printed twice; at the return
\* every function has run to its end and every message is out
C18_Once ==
    /\ \A f \in Funcs : calls[f] <= 1
    /\ \A m \in Messages : printed[m] <= 1
    /\ par_state = "returned" =>
          /\ \A f \in Funcs : calls[f] = 1 /\ progress[f] = N_PRINTF
          /\ \A m \in Messages : printed[m] = 1

\* a message goes out after the messages before it in its function
C18_PrintStep ==
    \A m \in Messages :
        printed'[m] # printed[m] =>
            /\ printed[m] = 0
            /\ \A k \in 1..(m[2] - 1) : printed[<<m[1], k>>] = 1
            /\ \A k \in (m[2] + 1)..N_PRINTF : printed[<<m[1], k>>] = 0

\* C18: print_messages_par runs each of the five functions exactly once and
\* returns only after all have finished; the five messages of one function
\* appear in that function's program order, whatever the interleaving with
\* the other functions, and each of the 25 messages is printed exactly once.
C18_EachOnceInOrder == []C18_Once /\ [][C18_PrintStep]_vars

\* an interleaving: the first function of funcs prints last, the last one
\* having finished before the second started
C18_Witness ==
    /\ par_state = "running"
    /\ progress[N_FUNCS] = N_PRINTF
    /\ calls[2] = 0
    /\ last_msg = <<1, 2>>

(***************************************************************************)
(* CLAIMS: the final makefile                                              *)
(***************************************************************************)
Targets == object_files \cup {program_exe}

\* A make run that comes directly after a make clean that came directly
\* after a make run, which left every target built.
C19_RunAfterClean ==
    /\ prev_cmd = "make run"
    /\ cmd = "make clean"
    /\ cmd' = "make run"

\* C19: with the final makefile, after a full build followed by make clean,
\* the next make run recompiles every object file (main.o, add.o and
\* subtract.o) and relinks the executable.
C19_RebuiltFromScratch ==
    [][C19_RunAfterClean => rebuilt' = Targets]_vars

\* What the makefile does instead: the object files under ./build and the
\* executable are made again, ./code/add.o is kept by make clean and is not
\* compiled again.
C19_AddNotRecompiled ==
    [][C19_RunAfterClean => rebuilt' = Targets \ {add_o}]_vars

\* make clean after a build leaves ./code/add.o and nothing else that was
\* built.
C19_CleanKeepsAdd ==
    (cmd = "make clean" /\ prev_cmd = "make run")
        => Existing \cap Targets = {add_o}

(***************************************************************************)
(* CLAIMS: the image gradients                                             *)
(***************************************************************************)
\* C20: for every 3 x 3 neighbourhood of 8-bit pixel values the gradient
\* lies in [0, 255], so neither assertion of x_gradients, y_gradients,
\* gradients and edges fails, and the conversion to u8 gives the integer
\* part of the gradient without wrapping.
C20_GradientInRange ==
    gop # "none" =>
        /\ grad >= 0
        /\ grad <= SCALE * U8_MAX
        /\ asserted
        /\ gop # "edges" => dst_pixel = grad \div SCALE

\* The largest gradient, 255, has been stored by gradients.
C20_Witness ==
    /\ gop = "gradients"
    /\ grad = SCALE * U8_MAX
    /\ asserted
    /\ dst_pixel = U8_MAX

(***************************************************************************)
(* CLAIMS: edges of an image                                               *)
(***************************************************************************)
C21_Border(img) == Positions(img) \ Interior(img)

\* The pixel edges must leave at an interior position of dst.
C21_Edge(pos) ==
    IF Truncated(gradient_at_xy(
           Neighbourhood(src_passed, pos[1], pos[2], 0))) >= edge_threshold
    THEN U8_MAX
    ELSE 0

\* C21: after edges(src, dst, threshold) on two images of equal size with
\* width >= 1 and height >= 1, src is unchanged, every pixel of dst on the
\* first or last row or column is 0, every interior pixel is 255 if the
\* truncated gradient of src there is at or above threshold and 0 otherwise
\* (so every pixel of dst has been written), and gradient_at_xy was called
\* at interior positions only and read no pixel outside src.
C21_EdgesOfImage ==
    estage = "returned" =>
        /\ src_image = src_passed
        /\ \A pos \in C21_Border(dst_image) :
               dst_image.data[row_begin(dst_image, pos[2]) + pos[1]] = 0
        /\ \A pos \in Interior(dst_image) :
               dst_image.data[row_begin(dst_image, pos[2]) + pos[1]]
                   = C21_Edge(pos)
        /\ evaluated = Interior(src_passed)
        /\ ~outside

\* edges has returned on a 3 x 3 image, with an edge found at its interior
\* pixel, and on another occasion none.
C21_Witness ==
    /\ estage = "returned"
    /\ src_image.width = 3 /\ src_image.height = 3
    /\ evaluated = {<<1, 1>>}
    /\ dst_image.data[4] = U8_MAX
    /\ edge_threshold > 0

C21_WitnessNoEdge ==
    /\ estage = "returned"
    /\ src_image.width = 3 /\ src_image.height = 3
    /\ dst_image.data[4] = 0

(***************************************************************************)
(* CLAIMS: the video application                                           *)
(***************************************************************************)
C22_ColourKeys == {"SDLK_r", "SDLK_g", "SDLK_b"}

\* The colour a key stands for, and its name in the message.
C22_Colour(key) ==
    CASE key = "SDLK_r" -> [name |-> "red", rgba |-> to_rgba(255, 0, 0)]
      [] key = "SDLK_g" -> [name |-> "green", rgba |-> to_rgba(0, 255, 0)]
      [] key = "SDLK_b" -> [name |-> "blue", rgba |-> to_rgba(0, 0, 255)]

C22_Press(e) == e.type = "SDL_KEYDOWN" /\ ~e.repeat /\ e.pressed

C22_Polls == video_pc = "SDL_PollEvent" /\ video_pc' = "state.update_frame()"

\* A non-repeat press of r, g or b installs the callback that fills the
\* screen image with the colour the printed message names.
C22_PressInstalls ==
    (C22_Polls /\ C22_Press(video_event') /\ video_event'.sym \in C22_ColourKeys)
        => /\ printed_line' = C22_Colour(video_event'.sym).name
           /\ update_frame' = FillImage(C22_Colour(video_event'.sym).rgba)

\* update_frame changes only at a non-repeat press of r, g, b or c; key
\* releases and key repeats leave it alone.
C22_OnlyKeysInstall ==
    update_frame' # update_frame
        => /\ C22_Polls
           /\ C22_Press(video_event')
           /\ video_event'.sym \in C22_ColourKeys \cup {"SDLK_c"}

\* On every frame the installed fill has run when the image is rendered.
C22_RunsBeforeRender ==
    (video_pc = "render_image" /\ video_pc' = "wait_for_framerate"
     /\ update_frame.call = "fill_image")
        => rendered' = update_frame.color

\* C22: in the final video application a non-repeat press of r, g or b
\* installs an update_frame that fills the screen image with red, green or
\* blue respectively, the colour named in the message printed for the key;
\* the installed callback runs on every frame before rendering until
\* another of the keys r, g, b, c is pressed, and key releases and key
\* repeats never change update_frame.
C22_KeysInstallColours ==
    [][C22_PressInstalls /\ C22_OnlyKeysInstall /\ C22_RunsBeforeRender]_vars

\* The parts of it that hold: only the four keys change update_frame, and
\* the installed fill is what every frame renders.
C22_InstalledRuns == [][C22_OnlyKeysInstall /\ C22_RunsBeforeRender]_vars

\* The press of r installs the red fill.
C22_RedInstalls ==
    [][(C22_Polls /\ C22_Press(video_event') /\ video_event'.sym = "SDLK_r")
          => /\ printed_line' = "red"
             /\ update_frame' = FillImage(to_rgba(255, 0, 0))]_vars

\* What g and b install: each the other's colour.
C22_GreenAndBlueSwapped ==
    /\ printed_line = "green" => update_frame = FillImage(to_rgba(0, 0, 255))
    /\ printed_line = "blue" => update_frame = FillImage(to_rgba(0, 255, 0))

(***************************************************************************)
(* CLAIMS: bump allocators, failed allocation, destroyed and full buffers  *)
(***************************************************************************)
\* C23: in every state of a ByteBuffer reachable through buffer_create,
\* buffer_push, buffer_reset and buffer_destroy, a buffer_create whose
\* allocation failed included, capacity > 0 implies data != nullptr.
C23_CapacityImpliesData ==
    kind = "ByteBuffer" => (buffer.capacity > 0 => buffer.data # NULL)

\* Where it fails: only after a create whose allocation failed, and until
\* the next create or destroy.
C23_OnlyAfterFailedCreate ==
    (kind = "ByteBuffer" /\ buffer.capacity > 0 /\ buffer.data = NULL)
        => since \in {"create", "reset"} /\ ~destroyed

\* A push on such a buffer returns nullptr.
C23_NoPushWithoutData ==
    [][(op' = "buffer_push" /\ buffer.data = NULL) => ret' = nullptr]_vars

C24_PushOps == {"buffer_push", "push"}

\* C24: after buffer_destroy / MemoryBuffer::free, until the buffer is
\* created again, every push returns nullptr and changes nothing, whatever
\* the request size; no push ever returns an address into freed memory.
C24_NoPushAfterDestroy ==
    [][op' \in C24_PushOps =>
          /\ destroyed => (ret' = nullptr /\ buffer' = buffer)
          /\ ret' # nullptr => ret'.blk \in live]_vars

\* A push of 0 bytes and a push of more than that have been refused on a
\* destroyed buffer, with a reset in between.
C24_Witness ==
    /\ destroyed
    /\ since = "reset"
    /\ op \in C24_PushOps
    /\ arg > 0
    /\ ret = nullptr

C25_PushOps == {"buffer_push", "push_elements"}

C25_Full(b) == b.capacity > 0 /\ b.size = b.capacity

\* A push of n > 0 with n == capacity - size succeeds and leaves
\* size == capacity.
C25_ExactFit ==
    (op' \in C25_PushOps /\ arg' > 0 /\ buffer.capacity >= buffer.size
     /\ arg' = buffer.capacity - buffer.size)
        => /\ ret' = Addr(buffer.data, buffer.size)
           /\ ret' # nullptr
           /\ C25_Full(buffer')

\* From the full state every push, of 0 bytes too, returns nullptr and
\* leaves the state as it is.
C25_FullRefuses ==
    (op' \in C25_PushOps /\ C25_Full(buffer))
        => ret' = nullptr /\ buffer' = buffer

\* C25: a push that fits exactly (n == capacity - size, n > 0) succeeds and
\* leaves size == capacity; from that full state every further push, a push
\* of 0 bytes included, returns nullptr with the state unchanged until reset
\* or destroy is called.
C25_ExactFitThenFull == [][C25_ExactFit /\ C25_FullRefuses]_vars

\* The same for a buffer that has its memory: an exact fit fails only on a
\* ByteBuffer whose buffer_create could not allocate.
C25_ExactFitWithData ==
    [][(buffer.data # NULL => C25_ExactFit) /\ C25_FullRefuses]_vars

\* A push of 0 bytes has been refused on a buffer that an exact fit filled.
C25_Witness ==
    /\ op \in C25_PushOps
    /\ arg = 0
    /\ ret = nullptr
    /\ C25_Full(buffer)
    /\ buffer.data # NULL
    /\ Len(regions) > 0
    /\ regions[Len(regions)].len > 0
    /\ regions[Len(regions)].start + regions[Len(regions)].len = buffer.capacity

(***************************************************************************)
(* CLAIMS: image views, empty ranges                                       *)
(***************************************************************************)
C26_Viewed == vstage \notin {"loaded"}

C26_EmptyInX(v) == v.range.x_begin = v.range.x_end

C26_EmptyInY(v) == v.range.y_begin = v.range.y_end

\* begin() == end(), and the loop from begin() to end() has visited no pixel
\* and invert_gray has changed none.
C26_NothingVisited ==
    /\ begin(view) = end(view)
    /\ Walked => visited = <<>>
    /\ vstage = "inverted" => image.data = before

\* C26: for a GrayView whose range is empty (x_begin == x_end or y_begin ==
\* y_end), begin() == end(), so a loop from begin() to end() visits and
\* modifies no pixel.
C26_EmptyRangeVisitsNothing ==
    (C26_Viewed /\ (C26_EmptyInX(view) \/ C26_EmptyInY(view)))
        => C26_NothingVisited

\* It holds for the ranges without rows, whatever their columns.
C26_EmptyInYVisitsNothing ==
    (C26_Viewed /\ C26_EmptyInY(view)) => C26_NothingVisited

\* A range with rows and without columns: begin() is (x_begin, y_begin) and
\* end() is (x_begin, y_end).
C26_EmptyInXOnly ==
    (C26_Viewed /\ C26_EmptyInX(view) /\ view.range.y_begin < view.range.y_end)
        => /\ begin(view) = [x |-> view.range.x_begin, y |-> view.range.y_begin]
           /\ end(view) = [x |-> view.range.x_begin, y |-> view.range.y_end]
           /\ begin(view) # end(view)

(***************************************************************************)
(* CLAIMS: the server socket used in order                                 *)
(***************************************************************************)
C27_ListenBindOpen ==
    /\ server.listen => server.bind
    /\ server.bind => server.open

\* C27: when open, bind, listen and accept are each attempted only after
\* the step before succeeded, with os_server_disconnect and os_server_close
\* called at any point, every reachable ServerSocketInfo has listen implies
\* bind, bind implies open, and client_connected implies open.
C27_FlagsInOrder ==
    /\ C27_ListenBindOpen
    /\ server.client_connected => server.open

\* The client is recorded as connected on a closed server only after an
\* os_server_close, until os_server_disconnect or an accept that fails.
C27_ConnectedOnClosed ==
    [][(server'.client_connected /\ ~server'.open
        /\ ~(server.client_connected /\ ~server.open))
          => sock_op' = "os_server_close"]_vars

(***************************************************************************)
(* CLAIMS: the execute_par demonstration                                   *)
(***************************************************************************)
\* Two functions of the list that are running at the same time.
C28_Concurrent(f, g) ==
    f # g /\ fstate[f] = "running" /\ fstate[g] = "running"

\* Every function of the list has been called once.
C28_EachRanOnce ==
    demo_pc = "returned" => \A f \in Listed : runs[f] = 1 /\ fstate[f] = "done"

\* C28: the functions of the list each write to their own destination
\* vector, so under execute_par no destination element is written by two
\* functions that run at the same time, and after execute_par returns every
\* function has run exactly once.
C28_OwnDestination ==
    /\ \A f, g \in Listed :
           (C28_Concurrent(f, g) /\ funcs[f].dst = funcs[g].dst)
               => wrote[f] \cap wrote[g] = {}
    /\ C28_EachRanOnce

\* process_vector_for has dst1 to itself: the elements written by two
\* functions at the same time are those of dst2, by the second and the third.
C28_OnlyDst2Shared ==
    \A f, g \in Listed :
        (C28_Concurrent(f, g) /\ funcs[f].dst = funcs[g].dst
         /\ wrote[f] \cap wrote[g] # {})
            => {f, g} = {2, 3} /\ funcs[f].dst = "dst2"

(***************************************************************************)
(* CLAIMS: the vector processed in four chunks                             *)
(***************************************************************************)
C29_Range(k) == {i \in 0 .. size(chunk_src) - 1 :
                    OfChunk(k).id_begin <= i /\ i < OfChunk(k).id_end}

\* The four ranges are pairwise disjoint and cover every index once, and
\* no element has been written by two chunks.
C29_RangesCoverOnce ==
    /\ \A k, l \in Chunks : k # l => C29_Range(k) \cap C29_Range(l) = {}
    /\ UNION {C29_Range(k) : k \in Chunks} = DOMAIN chunk_src
    /\ \A i \in DOMAIN chunk_writes : Cardinality(chunk_writes[i]) <= 1
    /\ \A i \in DOMAIN chunk_writes : \A k \in chunk_writes[i] : i \in C29_Range(k)

C29_Processed ==
    chunk_pc = "returned" =>
        \A i \in DOMAIN chunk_src :
            /\ chunk_dst[i] = do_work(chunk_src[i])
            /\ Cardinality(chunk_writes[i]) = 1

\* C29: for every vector length n >= 1 the four index ranges of
\* process_vector_chunks_4 are pairwise disjoint and cover every index
\* exactly once, every call of process_vector_elements satisfies its
\* assertions, the chunks never write the same element, and afterwards
\* dst[i] == do_work(src[i]) for all i.
C29_ChunksOfAnyLength ==
    /\ C29_RangesCoverOnce
    /\ chunk_asserts
    /\ chunk_pc # "aborted"
    /\ C29_Processed

\* The same for the vectors of four elements or more.
C29_ChunksFromFour ==
    size(chunk_src) >= 4 => C29_ChunksOfAnyLength

\* The shorter vectors: the ranges still cover every index once, and the
\* program never gets past the assertions of the first three calls.
C29_ShortVectors ==
    size(chunk_src) < 4 =>
        /\ C29_RangesCoverOnce
        /\ chunk_pc # "returned"
        /\ \A k \in 1 .. 3 : chunk_state[k] = "waiting"


(***************************************************************************)
(* CLAIMS: what main of the SDL2 application has cleaned up when it        *)
(* returns                                                                 *)
(***************************************************************************)
\* free(image.data) is called at most once, and only on the buffer that
\* create_image allocated.
C30_ImageFreedOnce ==
    /\ image_frees <= 1
    /\ image_frees = 1 => "create_image" \in succeeded
    /\ app_pc = "returned" => image_data = "nullptr"

\* C30: every path by which main returns after init_sdl() succeeded has
\* called cleanup() exactly once, and cleanup never frees the image buffer
\* twice nor frees it when create_image failed.
C30_CleanupOnEveryReturn ==
    /\ (app_pc = "returned" /\ "init_sdl" \in succeeded) => cleanups = 1
    /\ cleanups <= 1
    /\ C30_ImageFreedOnce

\* The same for the returns after create_window() succeeded.
C30_CleanupAfterWindow ==
    /\ (app_pc = "returned" /\ "create_window" \in succeeded) => cleanups = 1
    /\ cleanups <= 1
    /\ C30_ImageFreedOnce

\* The return without cleanup() is the one after create_window() failed.
C30_ReturnWithoutCleanup ==
    (app_pc = "returned" /\ "init_sdl" \in succeeded /\ cleanups = 0)
        => /\ succeeded = {"init_sdl"}
           /\ exit_code = "EXIT_FAILURE"

====
